---------------------------- MODULE Spec2Model ----------------------------
(*************************************************************************)
(* A model of scn1_to_obj.py (GalaxyAngel SCN0/SCN1 -> OBJ converter).     *)
(* Byte buffers are sequences of naturals 0..255; offset o of the source  *)
(* is position o+1 of the sequence.                                       *)
(*************************************************************************)
EXTENDS Integers, Sequences, FiniteSets, TLC

VARIABLES
    rdata, rofs, rlast,               \* Reader: buffer, cursor, last call
    tin, tdata, tofs, tstack, tpc,    \* parse_scn_tree: input, Reader, call stack
    sin, sargs, soff, sbest, sbestEnd, sbestAt, spc,  \* find_subset_table
    din, dpayload, doff, dmeshes, dseen, dpc,   \* extract_d3d_mesh_blocks
    pfile, pdata, pofs, ppc, pa, pb, pn,   \* parse_scn1: file, Reader, position, counters
    pmeshes, pemit, pret,             \*   meshes, meshes added per record, result
    mbatch, midx, mpc, mdata, mmesh,  \* main: sorted paths, loop index, position, locals
    mvisited, mfailed, mwritten, mret, \*   files begun, reported, written; result
    cfun, cin, cloc, cout, cpc        \* one call of a function: name, argument, locals, result

readerVars == <<rdata, rofs, rlast>>
treeVars   == <<tin, tdata, tofs, tstack, tpc>>
subsetVars == <<sin, sargs, soff, sbest, sbestEnd, sbestAt, spc>>
d3dVars    == <<din, dpayload, doff, dmeshes, dseen, dpc>>
scnVars    == <<pfile, pdata, pofs, ppc, pa, pb, pn, pmeshes, pemit, pret>>
mainVars   == <<mbatch, midx, mpc, mdata, mmesh, mvisited, mfailed, mwritten, mret>>
callVars   == <<cfun, cin, cloc, cout, cpc>>
vars       == <<readerVars, treeVars, subsetVars, d3dVars, scnVars, mainVars, callVars>>

-----------------------------------------------------------------------------
(* Bounds of the model.                                                    *)

MaxBufLen == 4

-----------------------------------------------------------------------------
(* Little helpers on byte sequences.                                       *)

Min(a, b) == IF a < b THEN a ELSE b
Max(a, b) == IF a > b THEN a ELSE b

\* Bind(e, F) is F(e) with e evaluated once, before F is applied.
Bind(e, F(_)) == CHOOSE r \in {F(v) : v \in {e}} : TRUE

MinOf(S) == CHOOSE x \in S : \A y \in S : x <= y
MaxOf(S) == CHOOSE x \in S : \A y \in S : x >= y

RECURSIVE Rep(_, _)
Rep(b, n) == IF n <= 0 THEN <<>> ELSE <<b>> \o Rep(b, n - 1)

U16LE(n) == <<n % 256, (n \div 256) % 256>>
U32LE(n) == <<n % 256, (n \div 256) % 256, (n \div 65536) % 256, (n \div 16777216) % 256>>

\* struct.unpack_from("<H"/"<I", data, o)[0]; callers check the bounds first.
U16At(d, o) == d[o + 1] + 256 * d[o + 2]
U32At(d, o) == d[o + 1] + 256 * d[o + 2] + 65536 * d[o + 3] + 16777216 * d[o + 4]

\* Python's data[a:b] for any integers a, b (negative ones count from the end).
PyIndex(len, i) == IF i < 0 THEN Max(i + len, 0) ELSE Min(i, len)
PySlice(d, a, b) == SubSeq(d, PyIndex(Len(d), a) + 1, PyIndex(Len(d), b))

\* bytes.find(b"\x00", from): the lowest offset >= from holding a NUL, or -1.
FindNul(d, from) ==
    LET hits == {o \in Max(from, 0)..(Len(d) - 1) : d[o + 1] = 0}
    IN  IF hits = {} THEN -1 ELSE CHOOSE o \in hits : \A p \in hits : o <= p

-----------------------------------------------------------------------------
(* class Reader.  Each method is an operator from (data, ofs[, argument])  *)
(* to [ok, ofs, val]: ok = FALSE is a raised exception, after which the    *)
(* cursor is the one before the call.                                      *)

Raised(ofs) == [ok |-> FALSE, ofs |-> ofs, val |-> 0]
Returned(ofs, v) == [ok |-> TRUE, ofs |-> ofs, val |-> v]

RdSeekUnchecked(d, ofs, t) == Returned(t, 0)
RdSeek(d, ofs, t) ==
    IF ~(0 <= t /\ t <= Len(d)) THEN Raised(ofs) ELSE Returned(t, 0)

RdSkip(d, ofs, n) == RdSeek(d, ofs, ofs + n)

\* self.data[self.ofs]: IndexError outside [-len, len); a negative index counts
\* from the end.
RdU8(d, ofs) ==
    IF ofs >= Len(d) \/ ofs < -Len(d) THEN Raised(ofs)
    ELSE Returned(ofs + 1, d[(IF ofs < 0 THEN ofs + Len(d) ELSE ofs) + 1])

\* struct.unpack_from raises struct.error unless 0 <= ofs and ofs + size <= len
\* (a negative offset is taken from the end).
UnpackOk(d, ofs, size) ==
    IF ofs < 0 THEN -ofs <= Len(d) /\ size <= -ofs ELSE ofs + size <= Len(d)
UnpackBase(d, ofs) == IF ofs < 0 THEN ofs + Len(d) ELSE ofs

RdU16(d, ofs) ==
    IF ~UnpackOk(d, ofs, 2) THEN Raised(ofs)
    ELSE Returned(ofs + 2, U16At(d, UnpackBase(d, ofs)))

RdU32(d, ofs) ==
    IF ~UnpackOk(d, ofs, 4) THEN Raised(ofs)
    ELSE Returned(ofs + 4, U32At(d, UnpackBase(d, ofs)))

\* The float is kept as its four bytes: the model never does float arithmetic.
RdF32(d, ofs) ==
    IF ~UnpackOk(d, ofs, 4) THEN Raised(ofs)
    ELSE Returned(ofs + 4, SubSeq(d, UnpackBase(d, ofs) + 1, UnpackBase(d, ofs) + 4))

RdBytes(d, ofs, n) ==
    LET b == PySlice(d, ofs, ofs + n)
    IN  IF Len(b) # n THEN Raised(ofs) ELSE Returned(ofs + n, b)

RdCstr(d, ofs) ==
    LET end == FindNul(d, ofs)
    IN  IF end < 0 THEN Raised(ofs) ELSE Returned(end + 1, PySlice(d, ofs, end))

-----------------------------------------------------------------------------
(* SpecReader: a Reader over a small buffer, driven by arbitrary calls.    *)

ByteAlphabet == {0, 65}

RECURSIVE BuffersOfLen(_)
BuffersOfLen(n) ==
    IF n = 0 THEN {<<>>}
    ELSE {<<b>> \o s : b \in ByteAlphabet, s \in BuffersOfLen(n - 1)}

ReaderBuffers == UNION {BuffersOfLen(n) : n \in 0..MaxBufLen}

\* Arguments of seek, skip and bytes: some inside and some outside the buffer.
ReaderArgs == (-2)..(MaxBufLen + 2)

NoCall == [op |-> "new", arg |-> 0, pre |-> 0, ok |-> TRUE, val |-> 0]

ReaderIdle == rdata = <<>> /\ rofs = 0 /\ rlast = NoCall
TreeIdle == tin = <<>> /\ tdata = <<>> /\ tofs = 0 /\ tstack = <<>> /\ tpc = "idle"
SubsetIdle ==
    /\ sin = <<>> /\ sargs = <<>> /\ soff = 0 /\ sbest = <<>> /\ sbestEnd = 0
    /\ sbestAt = <<>> /\ spc = "idle"
D3DIdle == din = <<>> /\ dpayload = <<>> /\ doff = 0 /\ dmeshes = <<>> /\ dseen = {} /\ dpc = "idle"
ScnIdle ==
    /\ pfile = <<>> /\ pdata = <<>> /\ pofs = 0 /\ ppc = "idle" /\ pa = 0 /\ pb = 0 /\ pn = 0
    /\ pmeshes = <<>> /\ pemit = <<>> /\ pret = <<>>
MainIdle ==
    /\ mbatch = <<>> /\ midx = 0 /\ mpc = "idle" /\ mdata = <<>> /\ mmesh = <<>>
    /\ mvisited = {} /\ mfailed = {} /\ mwritten = {} /\ mret = -1
CallIdle == cfun = "" /\ cin = <<>> /\ cloc = <<>> /\ cout = <<>> /\ cpc = "idle"

ReaderNew ==
    /\ rdata \in ReaderBuffers
    /\ rofs \in 0..Len(rdata)
    /\ rlast = NoCall

Called(op, arg, res) ==
    /\ rofs' = res.ofs
    /\ rlast' = [op |-> op, arg |-> arg, pre |-> rofs, ok |-> res.ok, val |-> res.val]
    /\ UNCHANGED <<rdata, treeVars, subsetVars, d3dVars, scnVars, mainVars, callVars>>

Seek  == \E t \in ReaderArgs : Called("seek", t, RdSeek(rdata, rofs, t))
Skip  == \E n \in ReaderArgs : Called("skip", n, RdSkip(rdata, rofs, n))
U8    == Called("u8", 0, RdU8(rdata, rofs))
U16   == Called("u16", 0, RdU16(rdata, rofs))
U32   == Called("u32", 0, RdU32(rdata, rofs))
F32   == Called("f32", 0, RdF32(rdata, rofs))
Bytes == \E n \in ReaderArgs : Called("bytes", n, RdBytes(rdata, rofs, n))
Cstr  == Called("cstr", 0, RdCstr(rdata, rofs))

InitReader == ReaderNew /\ TreeIdle /\ SubsetIdle /\ D3DIdle /\ ScnIdle /\ MainIdle /\ CallIdle
NextReader == Seek \/ Skip \/ U8 \/ U16 \/ U32 \/ F32 \/ Bytes \/ Cstr
SpecReader == InitReader /\ [][NextReader]_vars

-----------------------------------------------------------------------------
\* C5: a read that would cross the end of the buffer raises and returns nothing,
\* seek(t) and skip(n) (t = position + n) raise exactly when t is outside
\* [0, len], and after any sequence of calls the cursor is within [0, len].
ReadWidth(op, arg) ==
    CASE op = "u8" -> 1 [] op = "u16" -> 2 [] op = "u32" -> 4 [] op = "f32" -> 4
      [] op = "bytes" -> arg [] OTHER -> 0

C5_ReaderBounds ==
    /\ 0 <= rofs /\ rofs <= Len(rdata)
    /\ rlast.op \in {"u8", "u16", "u32", "f32", "bytes"}
         /\ rlast.pre + ReadWidth(rlast.op, rlast.arg) > Len(rdata) => ~rlast.ok
    /\ rlast.op = "cstr" /\ (\A o \in rlast.pre..(Len(rdata) - 1) : rdata[o + 1] # 0)
         => ~rlast.ok
    /\ rlast.op = "seek" => (~rlast.ok <=> ~(rlast.arg \in 0..Len(rdata)))
    /\ rlast.op = "skip" => (~rlast.ok <=> ~(rlast.pre + rlast.arg \in 0..Len(rdata)))
    /\ ~rlast.ok => rofs = rlast.pre

\* A read refused at the end of the buffer after a seek to the end succeeded.
C5_Witness ==
    /\ rlast.op = "u16" /\ ~rlast.ok
    /\ rlast.pre = Len(rdata) - 1 /\ Len(rdata) = MaxBufLen

-----------------------------------------------------------------------------
(* parse_scn_tree(data, start), one step per Reader call of parse_node.    *)
(* tstack holds one return point per active recursive call of parse_node:  *)
(* its length + 1 is the nesting depth of the node being parsed.           *)

MaxNodes == 4
TreeDepthCap == 3
BlobLen == 64

\* Tree shapes: <<>> is "no child", <<l, r>> a node with its flag1 child l and
\* flag2 child r.
RECURSIVE ShapesOfSize(_)
ShapesOfSize(n) ==
    IF n = 0 THEN {<<>>}
    ELSE UNION {{<<l, r>> : l \in ShapesOfSize(k), r \in ShapesOfSize(n - 1 - k)} :
                k \in 0..(n - 1)}

TreeShapes == UNION {ShapesOfSize(n) : n \in 1..MaxNodes}

RECURSIVE ShapeDepth(_)
ShapeDepth(t) == IF t = <<>> THEN 0 ELSE 1 + Max(ShapeDepth(t[1]), ShapeDepth(t[2]))

TreeNames == {<<>>, <<110, 49>>}
\* Flag values that are not 1: 257 is 1 in its low byte only.
NoChildFlags == {0, 2, 257}
TreeStarts == {4, 8}
TreeCuts == {0, 1, 6, 70}

\* The encoding of a node: name, NUL, 0x40 bytes, flag1, [child], flag2, [child].
RECURSIVE EncodeNode(_, _, _, _)
EncodeNode(t, name, nf1, nf2) ==
    name \o <<0>> \o Rep(1, BlobLen)
      \o (IF t[1] = <<>> THEN U32LE(nf1) ELSE U32LE(1) \o EncodeNode(t[1], name, nf1, nf2))
      \o (IF t[2] = <<>> THEN U32LE(nf2) ELSE U32LE(1) \o EncodeNode(t[2], name, nf1, nf2))

\* The length the claim gives for an encoded node.
RECURSIVE NodeLen(_, _)
NodeLen(t, name) ==
    Len(name) + 1 + BlobLen + 4 + (IF t[1] = <<>> THEN 0 ELSE NodeLen(t[1], name))
      + 4 + (IF t[2] = <<>> THEN 0 ELSE NodeLen(t[2], name))

TreeInputs ==
    [shape : TreeShapes, name : TreeNames, nf1 : NoChildFlags, nf2 : NoChildFlags,
     start : TreeStarts, cut : TreeCuts]

TreeBuffer(in) ==
    LET full == Rep(83, in.start) \o EncodeNode(in.shape, in.name, in.nf1, in.nf2)
    IN  SubSeq(full, 1, Max(Len(full) - in.cut, in.start))

TreeNew ==
    /\ tin \in TreeInputs
    /\ tdata = TreeBuffer(tin)
    /\ tofs = tin.start
    /\ tstack = <<>>
    /\ tpc = "name"

TreeStep(res, pc) ==
    /\ tofs' = res.ofs
    /\ tpc' = IF res.ok THEN pc ELSE "error"
    /\ UNCHANGED <<tin, tdata, readerVars, subsetVars, d3dVars, scnVars, mainVars, callVars>>

\* _name = r.cstr()
TreeCstr ==
    /\ tpc = "name"
    /\ TreeStep(RdCstr(tdata, tofs), "blob")
    /\ UNCHANGED tstack

\* r.skip(0x40)
TreeSkipBlob ==
    /\ tpc = "blob"
    /\ TreeStep(RdSkip(tdata, tofs, BlobLen), "flag1")
    /\ UNCHANGED tstack

FlagMeansChildLowByte(v) == v % 256 = 1
FlagMeansChild(v) == v = 1

\* flag1 = r.u32(); if flag1 == 1: parse_node()
TreeFlag1 ==
    /\ tpc = "flag1"
    /\ LET res == RdU32(tdata, tofs)
           child == res.ok /\ FlagMeansChild(res.val)
       IN  /\ TreeStep(res, IF child THEN "name" ELSE "flag2")
           /\ tstack' = IF child THEN Append(tstack, "flag1") ELSE tstack

\* flag2 = r.u32(); if flag2 == 1: parse_node()
TreeFlag2 ==
    /\ tpc = "flag2"
    /\ LET res == RdU32(tdata, tofs)
           child == res.ok /\ FlagMeansChild(res.val)
       IN  /\ TreeStep(res, IF child THEN "name" ELSE "ret")
           /\ tstack' = IF child THEN Append(tstack, "flag2") ELSE tstack

\* parse_node returns: to its caller's flag2 read, to its caller's own return,
\* or, from the root, to "return r.tell()".
TreeReturn ==
    /\ tpc = "ret"
    /\ tpc' = IF tstack = <<>> THEN "done"
              ELSE IF tstack[Len(tstack)] = "flag1" THEN "flag2" ELSE "ret"
    /\ tstack' = IF tstack = <<>> THEN tstack ELSE SubSeq(tstack, 1, Len(tstack) - 1)
    /\ UNCHANGED <<tin, tdata, tofs, readerVars, subsetVars, d3dVars, scnVars, mainVars, callVars>>

InitTree == TreeNew /\ ReaderIdle /\ SubsetIdle /\ D3DIdle /\ ScnIdle /\ MainIdle /\ CallIdle
NextTree == TreeCstr \/ TreeSkipBlob \/ TreeFlag1 \/ TreeFlag2 \/ TreeReturn
SpecTree == InitTree /\ [][NextTree]_vars

\* parse_scn_tree as a function of (data, start): the offset after the root node,
\* or -1 when a Reader call raises.
RECURSIVE ParseNode(_, _)
ParseNode(d, ofs) ==
    Bind(RdCstr(d, ofs), LAMBDA name :
      IF ~name.ok THEN -1
      ELSE Bind(RdSkip(d, name.ofs, BlobLen), LAMBDA blob :
        IF ~blob.ok THEN -1
        ELSE Bind(RdU32(d, blob.ofs), LAMBDA f1 :
          IF ~f1.ok THEN -1
          ELSE Bind(IF FlagMeansChild(f1.val) THEN ParseNode(d, f1.ofs) ELSE f1.ofs,
                    LAMBDA c1 :
            IF c1 < 0 THEN -1
            ELSE Bind(RdU32(d, c1), LAMBDA f2 :
              IF ~f2.ok THEN -1
              ELSE IF FlagMeansChild(f2.val) THEN ParseNode(d, f2.ofs) ELSE f2.ofs)))))

ParseScnTree(d, start) == ParseNode(d, start)

\* C9: an input nested deeper than the cap is rejected: parse_node is never
\* entered at a depth beyond the cap, such an input ends in an error.
C9_DepthCapped ==
    /\ Len(tstack) + 1 <= TreeDepthCap
    /\ tin.cut = 0 /\ ShapeDepth(tin.shape) > TreeDepthCap => tpc # "done"

\* C10: for a well-formed tree at offset start, the result is start plus the
\* encoded length of the root (name + NUL + 0x40 + flag1 + child iff flag1 = 1
\* + flag2 + child iff flag2 = 1); a flag other than 1 is followed by no child.
C10_TreeEnd ==
    /\ tin.cut = 0 => tpc # "error"
    /\ tpc = "done" /\ tin.cut = 0 => tofs = tin.start + NodeLen(tin.shape, tin.name)
    /\ tpc = "done" => tofs = ParseScnTree(tdata, tin.start)

\* A tree with both kinds of child and a flag of 257 parsed to its end.
C10_Witness ==
    /\ tpc = "done" /\ tin.cut = 0
    /\ tin.shape = <<<<<<>>, <<>>>>, <<<<>>, <<>>>>>>
    /\ tin.nf1 = 257 /\ tin.nf2 = 2 /\ tin.name # <<>>

-----------------------------------------------------------------------------
(* find_subset_table(payload, decl_off, vcount, face_count), one step per  *)
(* iteration of its scan loop.  sbest is "best" without its helper key,    *)
(* sbestEnd the helper key "_end_off", sbestAt the <<offset, entry size>>  *)
(* the entries of sbest were read at.                                      *)

MaxSubsets == 2
SubsetWindow == 16384
MaxSubsetCount == 256
TriLimit == 100000000

Zeros(n) == [i \in 1..n |-> 0]

\* The concatenation of ss[lo..hi], by halves (the recursion stays shallow).
RECURSIVE FlattenRange(_, _, _)
FlattenRange(ss, lo, hi) ==
    IF lo > hi THEN <<>>
    ELSE IF lo = hi THEN ss[lo]
    ELSE LET mid == (lo + hi) \div 2
         IN  FlattenRange(ss, lo, mid) \o FlattenRange(ss, mid + 1, hi)
Flatten(ss) == FlattenRange(ss, 1, Len(ss))

\* struct.unpack_from("<5I" / "<4I", payload, off + 4 + i * entry_size)
SubsetEntryAt(p, off, i, esize) ==
    LET at == off + 4 + i * esize
    IN  [material_id |-> U32At(p, at), start_tri |-> U32At(p, at + 4),
         tri_count |-> U32At(p, at + 8), base_vertex |-> U32At(p, at + 12),
         vcnt |-> IF esize = 20 THEN U32At(p, at + 16) ELSE -1]

BaseVertexOkUnchecked(base_v, vcount) == TRUE
BaseVertexOk(base_v, vcount) == ~(base_v > vcount)

\* The checks of one entry, each "ok = False; break" of the loop body.
SubsetEntryOk(e, esize, vcount, face_count) ==
    /\ esize = 20 => ~(e.vcnt # vcount)
    /\ BaseVertexOk(e.base_vertex, vcount)
    /\ ~(e.start_tri > TriLimit \/ e.tri_count > TriLimit \/ e.tri_count = 0)
    /\ ~(e.start_tri + e.tri_count > face_count)

\* sum_tris and max_end over rows[lo..hi], by halves.
RECURSIVE SumTrisRange(_, _, _)
SumTrisRange(rows, lo, hi) ==
    IF lo > hi THEN 0
    ELSE IF lo = hi THEN rows[lo].tri_count
    ELSE LET mid == (lo + hi) \div 2
         IN  SumTrisRange(rows, lo, mid) + SumTrisRange(rows, mid + 1, hi)
SumTris(rows) == SumTrisRange(rows, 1, Len(rows))

RECURSIVE MaxEndRange(_, _, _)
MaxEndRange(rows, lo, hi) ==
    IF lo > hi THEN 0
    ELSE IF lo = hi THEN rows[lo].start_tri + rows[lo].tri_count
    ELSE LET mid == (lo + hi) \div 2
         IN  Max(MaxEndRange(rows, lo, mid), MaxEndRange(rows, mid + 1, hi))
MaxEnd(rows) == MaxEndRange(rows, 1, Len(rows))

SubsetDict(e) ==
    [material_id |-> e.material_id, start_tri |-> e.start_tri,
     tri_count |-> e.tri_count, base_vertex |-> e.base_vertex]

\* "if not best or (decl_off - (off + table_bytes)) < (decl_off - best_end)"
IsCloserOrTied(best, dist, bestDist) == best = <<>> \/ dist <= bestDist
IsCloser(best, dist, bestDist) == best = <<>> \/ dist < bestDist

\* The body of "for entry_size in (20, 16)" for one entry size.
TryEntrySize(a, off, esize, cur) ==
    LET count == U32At(a.payload, off)
        table_bytes == 4 + count * esize
        rows == [i \in 1..count |-> SubsetEntryAt(a.payload, off, i - 1, esize)]
    IN  IF off + table_bytes > a.decl_off THEN cur
        ELSE IF ~(\A i \in 1..count :
                    SubsetEntryOk(rows[i], esize, a.vcount, a.face_count)) THEN cur
        ELSE IF SumTris(rows) = 0 \/ MaxEnd(rows) = 0 THEN cur
        ELSE IF IsCloser(cur.best, a.decl_off - (off + table_bytes), a.decl_off - cur.end)
             THEN [best |-> [i \in 1..count |-> SubsetDict(rows[i])],
                   end |-> off + table_bytes, at |-> <<off, esize>>]
        ELSE cur

\* The body of "for off in range(search_start, search_end, 4)".
ScanOffset(a, off, cur) ==
    LET subset_count == U32At(a.payload, off)
    IN  IF subset_count = 0 \/ subset_count > MaxSubsetCount THEN cur
        ELSE TryEntrySize(a, off, 16, TryEntrySize(a, off, 20, cur))

SearchStart(decl_off) == Max(0, decl_off - SubsetWindow)
SearchEnd(decl_off) == Max(0, decl_off - 4)

\* --- inputs ---
SubsetEntries(V, F) ==
    { [m |-> 0, s |-> 0, t |-> 1, b |-> 0, vc |-> V],
      [m |-> 1, s |-> F - 1, t |-> 1, b |-> 1, vc |-> V],
      [m |-> 2, s |-> 0, t |-> 0, b |-> 0, vc |-> V],
      [m |-> 0, s |-> 0, t |-> 1, b |-> V + 1, vc |-> V],
      [m |-> 0, s |-> 1, t |-> F, b |-> 0, vc |-> V],
      [m |-> 0, s |-> 0, t |-> F, b |-> 0, vc |-> V + 1] }

EncodeEntry(e, esize) ==
    U32LE(e.m) \o U32LE(e.s) \o U32LE(e.t) \o U32LE(e.b)
      \o (IF esize = 20 THEN U32LE(e.vc) ELSE <<>>)

EncodeTable(count, rows, esize) ==
    U32LE(count) \o Flatten([i \in 1..Len(rows) |-> EncodeEntry(rows[i], esize)])

GoodEntry(V) == [m |-> 0, s |-> 0, t |-> 1, b |-> 0, vc |-> V]

\* Tables of one or two entries, next to the declaration or a few bytes before
\* it or overlapping it, behind padding that shifts their alignment, with or
\* without an earlier valid table.
SmallSubsetInputs ==
    UNION {
      { [lead |-> lead, far |-> far, count |-> Len(rows), rows |-> rows, esize |-> esize,
         gap |-> gap, vcount |-> V, face_count |-> 2]
        : lead \in {0, 2, 8},
          far \in {<<>>, EncodeTable(1, <<GoodEntry(V)>>, 20) \o Zeros(4),
                   EncodeTable(1, <<GoodEntry(V)>>, 16) \o Zeros(8)},
          rows \in UNION {[1..n -> SubsetEntries(V, 2)] : n \in 1..MaxSubsets},
          esize \in {16, 20},
          gap \in {-4, 0, 8} }
      : V \in {1, 4} }

\* Tables at the edges of what the code accepts: 256 and 257 entries, a table
\* starting exactly 0x4000 bytes before the declaration and one 4 bytes earlier.
EdgeSubsetInputs ==
    { [lead |-> 0, far |-> <<>>, count |-> n, rows |-> [i \in 1..n |-> GoodEntry(4)],
       esize |-> 20, gap |-> 0, vcount |-> 4, face_count |-> 2]
      : n \in {MaxSubsetCount, MaxSubsetCount + 1} }
    \cup
    { [lead |-> 8, far |-> <<>>, count |-> 1, rows |-> <<GoodEntry(4)>>,
       esize |-> 20, gap |-> g, vcount |-> 4, face_count |-> 2]
      : g \in {SubsetWindow - 24, SubsetWindow - 20} }

SubsetInputs == SmallSubsetInputs \cup EdgeSubsetInputs

SubsetNearOff(in) == in.lead + Len(in.far)
SubsetNearEnd(in) == SubsetNearOff(in) + 4 + Len(in.rows) * in.esize

SubsetArgs(in) ==
    [payload |-> Zeros(in.lead) \o in.far \o EncodeTable(in.count, in.rows, in.esize)
                   \o Zeros(in.gap) \o <<0, 0, 0, 0, 2, 0, 0, 0>>,
     decl_off |-> SubsetNearEnd(in) + in.gap,
     vcount |-> in.vcount, face_count |-> in.face_count]

SubsetNew ==
    /\ sin \in SubsetInputs
    /\ sargs = SubsetArgs(sin)
    /\ soff = 0 /\ sbest = <<>> /\ sbestEnd = 0 /\ sbestAt = <<>>
    /\ spc = "start"

\* search_start, search_end; "if search_end <= search_start: return best"
SubsetBegin ==
    /\ spc = "start"
    /\ soff' = SearchStart(sargs.decl_off)
    /\ spc' = IF SearchEnd(sargs.decl_off) <= SearchStart(sargs.decl_off)
              THEN "done" ELSE "scan"
    /\ UNCHANGED <<sin, sargs, sbest, sbestEnd, sbestAt, readerVars, treeVars, d3dVars, scnVars, mainVars, callVars>>

SubsetScan ==
    /\ spc = "scan"
    /\ soff < SearchEnd(sargs.decl_off)
    /\ LET cur == ScanOffset(sargs, soff, [best |-> sbest, end |-> sbestEnd, at |-> sbestAt])
       IN  sbest' = cur.best /\ sbestEnd' = cur.end /\ sbestAt' = cur.at
    /\ soff' = soff + 4
    /\ UNCHANGED <<sin, sargs, spc, readerVars, treeVars, d3dVars, scnVars, mainVars, callVars>>

\* the loop is over: strip the helper key, "return best"
SubsetReturn ==
    /\ spc = "scan"
    /\ soff >= SearchEnd(sargs.decl_off)
    /\ spc' = "done"
    /\ UNCHANGED <<sin, sargs, soff, sbest, sbestEnd, sbestAt, readerVars, treeVars, d3dVars, scnVars, mainVars, callVars>>

InitSubset == SubsetNew /\ ReaderIdle /\ TreeIdle /\ D3DIdle /\ ScnIdle /\ MainIdle /\ CallIdle
NextSubset == SubsetBegin \/ SubsetScan \/ SubsetReturn
SpecSubset == InitSubset /\ [][NextSubset]_vars

\* What the claims call a valid table at offset off with entries of esize bytes:
\* 1..256 entries, ending at or before decl_off, every entry with
\* base_vertex <= vcount, tri_count > 0, start_tri + tri_count <= face_count and,
\* for 20-byte entries, vertex_count = vcount.
ValidTableAt(a, off, esize) ==
    LET n == U32At(a.payload, off)
    IN  /\ 1 <= n /\ n <= MaxSubsetCount
        /\ off + 4 + n * esize <= a.decl_off
        /\ \A i \in 0..(n - 1) :
             LET at == off + 4 + i * esize
             IN  /\ U32At(a.payload, at + 12) <= a.vcount
                 /\ U32At(a.payload, at + 8) > 0
                 /\ U32At(a.payload, at + 4) + U32At(a.payload, at + 8) <= a.face_count
                 /\ esize = 20 => U32At(a.payload, at + 16) = a.vcount

TableEnd(a, c) == c[1] + 4 + U32At(a.payload, c[1]) * c[2]

\* The candidates the scan examines: offsets search_start + 4k below search_end.
ScannedCandidates(a) ==
    {c \in {o \in SearchStart(a.decl_off)..(SearchEnd(a.decl_off) - 1) :
              (o - SearchStart(a.decl_off)) % 4 = 0} \X {20, 16} :
       ValidTableAt(a, c[1], c[2])}

\* C2: a returned table has 1..256 entries, starts at most 0x4000 bytes before
\* decl_off and ends at or before it, its entries are those stored there and
\* each has base_vertex <= vcount, tri_count > 0, start_tri + tri_count <=
\* face_count (and vertex_count = vcount in a 20-byte entry); with no valid
\* table at any offset of the window the result is empty.
C2_SubsetTableValid ==
    /\ sbest # <<>> =>
         LET off == sbestAt[1]
             esize == sbestAt[2]
             n == Len(sbest)
         IN  /\ 1 <= n /\ n <= 256
             /\ U32At(sargs.payload, off) = n
             /\ off >= 0 /\ off >= sargs.decl_off - 16384
             /\ off + 4 + n * esize <= sargs.decl_off
             /\ \A i \in 1..n :
                  LET at == off + 4 + (i - 1) * esize
                  IN  /\ sbest[i].material_id = U32At(sargs.payload, at)
                      /\ sbest[i].start_tri = U32At(sargs.payload, at + 4)
                      /\ sbest[i].tri_count = U32At(sargs.payload, at + 8)
                      /\ sbest[i].base_vertex = U32At(sargs.payload, at + 12)
                      /\ sbest[i].base_vertex <= sargs.vcount
                      /\ sbest[i].tri_count > 0
                      /\ sbest[i].start_tri + sbest[i].tri_count <= sargs.face_count
                      /\ esize = 20 => U32At(sargs.payload, at + 16) = sargs.vcount
    /\ spc = "done"
         /\ (\A o \in Max(0, sargs.decl_off - 16384)..(sargs.decl_off - 4) :
               ~ValidTableAt(sargs, o, 20) /\ ~ValidTableAt(sargs, o, 16))
         => sbest = <<>>

\* A two-entry table of 20-byte entries returned although an earlier valid
\* table lies in the window.
C2_Witness ==
    /\ spc = "done" /\ Len(sbest) = 2 /\ sbestAt[2] = 20
    /\ sin.far # <<>> /\ sin.gap = 8

\* The table of the input, when it is a valid table of 20-byte entries that
\* ends exactly at decl_off.
Injected(in) ==
    /\ in.esize = 20 /\ in.gap = 0 /\ in.count = Len(in.rows)
    /\ 1 <= in.count /\ in.count <= 256
    /\ \A i \in 1..Len(in.rows) :
         /\ in.rows[i].b <= in.vcount /\ in.rows[i].t > 0
         /\ in.rows[i].s + in.rows[i].t <= in.face_count
         /\ in.rows[i].vc = in.vcount

\* C3: a valid table of N 20-byte entries that ends exactly at decl_off is
\* returned: exactly its N entries, in order, fields unmodified.
C3_RoundTrip ==
    spc = "done" /\ Injected(sin) =>
        sbest = [i \in 1..Len(sin.rows) |->
                   [material_id |-> sin.rows[i].m, start_tri |-> sin.rows[i].s,
                    tri_count |-> sin.rows[i].t, base_vertex |-> sin.rows[i].b]]

\* C4 as stated: the result is the valid candidate ending closest to decl_off,
\* and no two distinct valid candidates end at the same distance from it.
C4_ClosestUnique ==
    spc = "done" =>
        LET C == ScannedCandidates(sargs)
        IN  /\ C # {} => /\ sbestAt \in C
                         /\ \A c \in C : TableEnd(sargs, sbestAt) >= TableEnd(sargs, c)
            /\ \A c1, c2 \in C : c1 # c2 => TableEnd(sargs, c1) # TableEnd(sargs, c2)

\* C4 (amended): the result is a valid candidate ending closest to decl_off;
\* when several valid candidates end at that distance, it is the one that
\* starts at the lowest offset.
C4_ClosestFirst ==
    spc = "done" =>
        LET C == ScannedCandidates(sargs)
        IN  /\ C = {} => sbest = <<>>
            /\ C # {} =>
                 /\ sbestAt \in C
                 /\ sbestEnd = TableEnd(sargs, sbestAt)
                 /\ \A c \in C :
                      \/ TableEnd(sargs, sbestAt) > TableEnd(sargs, c)
                      \/ TableEnd(sargs, sbestAt) = TableEnd(sargs, c) /\ sbestAt[1] <= c[1]

\* Two valid candidates end at the same offset and the scan is over.
C4_Witness ==
    /\ spc = "done" /\ sbest # <<>>
    /\ \E c \in ScannedCandidates(sargs) :
         c # sbestAt /\ TableEnd(sargs, c) = TableEnd(sargs, sbestAt)

-----------------------------------------------------------------------------
(* find_subset_table as a function of its arguments: the scan loop run to  *)
(* its end.                                                                *)

\* The iterations at the offsets offs, in ascending order.
RECURSIVE SubsetScanOver(_, _, _)
SubsetScanOver(a, offs, cur) ==
    IF offs = {} THEN cur
    ELSE Bind(MinOf(offs),
              LAMBDA off : Bind(ScanOffset(a, off, cur),
                                LAMBDA next : SubsetScanOver(a, offs \ {off}, next)))

\* The loop from off on.  An iteration whose count is 0 or above 256 leaves
\* cur as it is, so the loop is run over the other offsets only.
SubsetScanFrom(a, off, cur) ==
    SubsetScanOver(a,
                   {o \in off..(SearchEnd(a.decl_off) - 1) :
                      /\ (o - off) % 4 = 0
                      /\ U32At(a.payload, o) # 0
                      /\ U32At(a.payload, o) <= MaxSubsetCount},
                   cur)

FindSubsetTable(payload, decl_off, vcount, face_count) ==
    LET a == [payload |-> payload, decl_off |-> decl_off, vcount |-> vcount,
              face_count |-> face_count]
        none == [best |-> <<>>, end |-> 0, at |-> <<>>]
    IN  IF SearchEnd(decl_off) <= SearchStart(decl_off) THEN <<>>
        ELSE SubsetScanFrom(a, SearchStart(decl_off), none).best

-----------------------------------------------------------------------------
(* parse_d3d_decl_520 and extract_d3d_mesh_blocks.                         *)

DeclBytes == 520
DeclElems == 65
SentinelStream == 255
MaxDeclStride == 1024
MaxEmbeddedVcount == 5000000
MaxIdxCountA == 50000000
MaxIdxCountB == 100000000

TypeSizeOrZero(typ) ==
    IF typ \in 0..17
    THEN <<4, 8, 12, 16, 4, 4, 4, 4, 8, 8, 16, 4, 4, 4, 4, 8, 8, 8>>[typ + 1]
    ELSE 0

\* type_size.get(typ): -1 stands for None.
TypeSize(typ) ==
    IF typ \in 0..17
    THEN <<4, 8, 12, 16, 4, 4, 4, 4, 8, 8, 16, 4, 4, 4, 4, 8, 8, 8>>[typ + 1]
    ELSE -1

\* struct.unpack_from("<HH", block, off) and ("<BBBB", block, off + 4)
D3DElemAt(p, at) ==
    [stream |-> U16At(p, at), offset |-> U16At(p, at + 2), typ |-> p[at + 5],
     method |-> p[at + 6], usage |-> p[at + 7], usage_idx |-> p[at + 8]]

NoDecl == [ok |-> FALSE, stride |-> 0, elems |-> <<>>]

\* The declaration of parsed elements (the last one is the end element):
\* the check of the types and the stride of stream 0 (lines 695-709).
DeclOf(elems) ==
    LET last == Len(elems) - 1
        reach == {elems[i].offset + TypeSize(elems[i].typ) :
                    i \in {j \in 1..last : elems[j].stream = 0}}
        stride == IF reach = {} THEN 0 ELSE MaxOf(reach)
    IN  IF \E i \in 1..last : TypeSize(elems[i].typ) = -1 THEN NoDecl
        ELSE IF stride <= 0 \/ stride > MaxDeclStride THEN NoDecl
        ELSE [ok |-> TRUE, stride |-> stride, elems |-> elems]

\* parse_d3d_decl_520(p[off : off + 520])
ParseD3DDecl520(p, off) ==
    IF Len(PySlice(p, off, off + DeclBytes)) # DeclBytes THEN NoDecl
    ELSE Bind({i \in 0..(DeclElems - 1) : U16At(p, off + 8 * i) = SentinelStream},
              LAMBDA ends :
                IF ends = {} THEN NoDecl
                ELSE Bind([i \in 1..(MinOf(ends) + 1) |-> D3DElemAt(p, off + 8 * (i - 1))],
                          LAMBDA elems : DeclOf(elems)))

\* The faces of an index list: triples when its length is a multiple of 3,
\* else a triangle strip without its degenerate triangles.
RECURSIVE StripFaces(_, _)
StripFaces(ix, i) ==
    IF i > Len(ix) THEN <<>>
    ELSE LET a == ix[i - 2]
             b == ix[i - 1]
             c == ix[i]
             \* position i is the source's index i - 1
             f == IF (i - 1) % 2 = 1 THEN <<b, a, c>> ELSE <<a, b, c>>
         IN  (IF a = b \/ b = c \/ a = c THEN <<>> ELSE <<f>>) \o StripFaces(ix, i + 1)

\* The triples alone, whatever the length.
BuildFacesTriples(ix) ==
    [k \in 1..(Len(ix) \div 3) |-> <<ix[3 * k - 2], ix[3 * k - 1], ix[3 * k]>>]
BuildFaces(ix) ==
    IF Len(ix) % 3 = 0
    THEN [k \in 1..(Len(ix) \div 3) |-> <<ix[3 * k - 2], ix[3 * k - 1], ix[3 * k]>>]
    ELSE StripFaces(ix, 3)

\* struct.unpack_from("<" + "H" * n, ib, 0) / ("<" + "I" * n, ib, 0)
ReadIndices(p, ib_off, n, idx_size) ==
    [k \in 1..n |-> IF idx_size = 2 THEN U16At(p, ib_off + 2 * (k - 1))
                    ELSE U32At(p, ib_off + 4 * (k - 1))]

\* The faces of the index buffer at ib_off.
FacesAt(p, ib_off, n, idx_size) ==
    Bind(ReadIndices(p, ib_off, n, idx_size), LAMBDA ix : BuildFaces(ix))

RECURSIVE Xor(_, _)
Xor(a, b) ==
    IF a = 0 THEN b
    ELSE IF b = 0 THEN a
    ELSE ((a + b) % 2) + 2 * Xor(a \div 2, b \div 2)

\* key = (off << 1) ^ (vcount & 0xFFFF) ^ (idx_count << 3)
DedupKey(off, vcount, idx_count) == Xor(Xor(off * 2, vcount % 65536), idx_count * 8)

\* idx_bpi.get(h0): 0 stands for None.
IdxBpi(h0) == IF h0 \in 0..4 THEN <<2, 4, 2, 2, 4>>[h0 + 1] ELSE 0

NoBlock == [ok |-> FALSE]

\* "vcount, vb_off = ..." of the scan loop: the first of the three fields
\* behind the declaration that is in (0, 5000000], else the third; the same
\* with the fields tried from the last to the first.
ProbeVcountLastFirst(p, off) ==
    LET v0 == U32At(p, off + 520)
        v1 == U32At(p, off + 524)
        v2 == U32At(p, off + 528)
    IN  IF 0 < v2 /\ v2 <= MaxEmbeddedVcount THEN <<v2, off + 532>>
        ELSE IF 0 < v1 /\ v1 <= MaxEmbeddedVcount THEN <<v1, off + 528>>
        ELSE <<v0, off + 524>>
ProbeVcount(p, off) ==
    LET v0 == U32At(p, off + 520)
        v1 == U32At(p, off + 524)
        v2 == U32At(p, off + 528)
    IN  IF 0 < v0 /\ v0 <= MaxEmbeddedVcount THEN <<v0, off + 524>>
        ELSE IF 0 < v1 /\ v1 <= MaxEmbeddedVcount THEN <<v1, off + 528>>
        ELSE <<v2, off + 532>>

\* The body of the scan loop of extract_d3d_mesh_blocks from the vertex count
\* to "end > len", for the declaration decl parsed at off: the block that
\* starts at off, or NoBlock after a "continue".
D3DBlockWith(p, off, decl) ==
    LET pick == ProbeVcount(p, off)
        vcount == pick[1]
        vb_off == pick[2]
        vb_size == decl.stride * vcount
        idx_hdr == vb_off + vb_size
        h0 == U32At(p, idx_hdr)
        h1 == U32At(p, idx_hdr + 4)
        isA == h0 \in {0, 1} /\ h1 # 0 /\ h1 <= MaxIdxCountA
        bpi == IdxBpi(h0)
        idx_size == IF isA THEN (IF h0 = 0 THEN 2 ELSE 4) ELSE bpi
        ib_off == idx_hdr + 8
        end == ib_off + h1 * idx_size
    \* A count above len(payload) fails "idx_hdr + 8 > len" or "end > len"
    \* (a stride or an index is a byte at least); it is tested before the
    \* product is taken.
    IN  IF ~decl.ok THEN NoBlock
        ELSE IF vcount = 0 \/ vcount > MaxEmbeddedVcount THEN NoBlock
        ELSE IF vcount > Len(p) \/ idx_hdr + 8 > Len(p) THEN NoBlock
        ELSE IF ~isA /\ (bpi = 0 \/ h1 = 0 \/ h1 > MaxIdxCountB) THEN NoBlock
        ELSE IF h1 > Len(p) \/ end > Len(p) THEN NoBlock
        ELSE [ok |-> TRUE, off |-> off, stride |-> decl.stride, elems |-> decl.elems,
              vcount |-> vcount, vb_off |-> vb_off, idx_count |-> h1,
              idx_size |-> idx_size, ib_off |-> ib_off, end |-> end]

D3DBlockAt(p, off) ==
    Bind(ParseD3DDecl520(p, off), LAMBDA decl : D3DBlockWith(p, off, decl))

\* The offset that the subset lookup is given: "decl_off_eff = vb_off -
\* 524"; the same with the table allowed to run 8 bytes further.
SubsetDeclOffLate(b) == b.vb_off - 516
SubsetDeclOff(b) == b.vb_off - 524

\* The Mesh built from an accepted block (lines 535-587).  Vertices are kept
\* as their number; part is len(meshes) at the time, the suffix of the name.
D3DMesh(p, b, part) ==
    Bind(FacesAt(p, b.ib_off, b.idx_count, b.idx_size),
         LAMBDA faces :
           [kind |-> "embedded", off |-> b.off, part |-> part, nverts |-> b.vcount,
            faces |-> faces,
            subsets |-> IF b.vcount > 0 /\ faces # <<>>
                        THEN FindSubsetTable(p, SubsetDeclOff(b), b.vcount, Len(faces))
                        ELSE <<>>])

SeenBefore(key, seen) == key \in seen

\* The end of an iteration whose block b was accepted: the duplicate check
\* and the new Mesh.
D3DEmit(p, b, acc) ==
    LET key == DedupKey(b.off, b.vcount, b.idx_count)
    IN  IF SeenBefore(key, acc.seen) THEN acc
        ELSE [meshes |-> Append(acc.meshes, D3DMesh(p, b, Len(acc.meshes))),
              seen |-> acc.seen \cup {key}]

\* One iteration of "for off in range(0, len(payload) - (520 + 4 + 8), 2)":
\* acc is [meshes, seen].
D3DScanStep(p, off, acc) ==
    Bind(D3DBlockAt(p, off), LAMBDA b : IF ~b.ok THEN acc ELSE D3DEmit(p, b, acc))

D3DScanEnd(p) == Len(p) - (520 + 4 + 8)

\* The offsets of the scan at which a block is accepted; at every other
\* offset the iteration ends in a "continue".
D3DBlockOffsets(p) ==
    {off \in 0..(D3DScanEnd(p) - 1) : off % 2 = 0 /\ D3DBlockAt(p, off).ok}

\* The iterations of the scan at the offsets hits, in ascending order.
RECURSIVE D3DScanOver(_, _, _)
D3DScanOver(p, hits, acc) ==
    IF hits = {} THEN acc
    ELSE Bind(MinOf(hits),
              LAMBDA next :
                Bind(D3DScanStep(p, next, acc),
                     LAMBDA acc2 : D3DScanOver(p, hits \ {next}, acc2)))

\* extract_d3d_mesh_blocks(payload): the list of meshes.
ExtractPayload(p) ==
    IF Len(p) < 520 + 4 + 8 THEN <<>>
    ELSE Bind(D3DBlockOffsets(p),
              LAMBDA hits : D3DScanOver(p, hits, [meshes |-> <<>>, seen |-> {}]).meshes)

ExtractD3DMeshBlocks(payload) == Bind(payload, LAMBDA p : ExtractPayload(p))

\* --- inputs ---
MaxVerts == 4

EncodeElem(stream, offset, typ, usage) ==
    U16LE(stream) \o U16LE(offset) \o <<typ, 0, usage, 0>>

\* A 520-byte declaration: the elements, the D3DDECL_END element, zeros.
EncodeDecl(elems) ==
    Flatten(elems) \o EncodeElem(SentinelStream, 0, 17, 0)
      \o Zeros(DeclBytes - 8 * (Len(elems) + 1))

DeclPos == <<EncodeElem(0, 0, 2, 0)>>
DeclPosNrmUv == <<EncodeElem(0, 0, 2, 0), EncodeElem(0, 12, 2, 3), EncodeElem(0, 24, 1, 5)>>

DeclStride(elems) == IF Len(elems) = 1 THEN 12 ELSE 32

\* Index lists over V vertices: a triangle, two triangles, a strip, and two
\* lists that name a vertex the buffer does not hold.
IndexLists(V) ==
    { <<0, 1, 2>>, <<0, 1, 2, 2, 1, V - 1>>, <<0, 1, 2, V - 1>>,
      <<0, 1, V>>, <<0, 1, 2, 0, 2, V + 2>> }

EncodeIndices(ix, idx_size) ==
    Flatten([k \in 1..Len(ix) |-> IF idx_size = 2 THEN U16LE(ix[k]) ELSE U32LE(ix[k])])

\* Vertex bytes without a 0xFF: they never read as a declaration's end.
VertexBytes(n) == [i \in 1..n |-> 1 + (i % 5)]

D3DInputs ==
    { [pad |-> pad, table |-> table, layout |-> layout, elems |-> elems,
       vcount |-> MaxVerts, h0 |-> h0, indices |-> ix, tail |-> tail]
      : pad \in {0, 8}, table \in BOOLEAN, layout \in 0..2,
        elems \in {DeclPos, DeclPosNrmUv}, h0 \in {0, 1, 2, 7},
        ix \in IndexLists(MaxVerts), tail \in {0, 6} }
    \cup
    { [pad |-> pad, table |-> FALSE, layout |-> 0, elems |-> <<>>,
       vcount |-> 0, h0 |-> 0, indices |-> <<>>, tail |-> 0]
      : pad \in {100, 532} }

D3DDeclOff(in) == in.pad + (IF in.table THEN 24 ELSE 0)

D3DPayload(in) ==
    IF in.elems = <<>> THEN Zeros(in.pad)
    ELSE Zeros(in.pad)
           \o (IF in.table THEN EncodeTable(1, <<GoodEntry(in.vcount)>>, 20) ELSE <<>>)
           \o EncodeDecl(in.elems)
           \o Zeros(4 * in.layout) \o U32LE(in.vcount)
           \o VertexBytes(DeclStride(in.elems) * in.vcount)
           \o U32LE(in.h0) \o U32LE(Len(in.indices))
           \o EncodeIndices(in.indices, IF in.h0 \in {1, 4} THEN 4 ELSE 2)
           \o Zeros(in.tail)

D3DNew ==
    /\ din \in D3DInputs
    /\ dpayload = D3DPayload(din)
    /\ doff = 0 /\ dmeshes = <<>> /\ dseen = {}
    /\ dpc = "start"

D3DOther == UNCHANGED <<din, dpayload, readerVars, treeVars, subsetVars, scnVars, mainVars, callVars>>

\* "if len(payload) < 520 + 4 + 8: return meshes"
D3DBegin ==
    /\ dpc = "start"
    /\ dpc' = IF Len(dpayload) < 520 + 4 + 8 THEN "done" ELSE "scan"
    /\ UNCHANGED <<doff, dmeshes, dseen>>
    /\ D3DOther

\* one iteration of the scan loop
D3DScan ==
    /\ dpc = "scan"
    /\ doff < D3DScanEnd(dpayload)
    /\ \E acc \in {D3DScanStep(dpayload, doff, [meshes |-> dmeshes, seen |-> dseen])} :
          /\ dmeshes' = acc.meshes
          /\ dseen' = acc.seen
    /\ doff' = doff + 2
    /\ UNCHANGED dpc
    /\ D3DOther

\* "return meshes"
D3DReturn ==
    /\ dpc = "scan"
    /\ doff >= D3DScanEnd(dpayload)
    /\ dpc' = "done"
    /\ UNCHANGED <<doff, dmeshes, dseen>>
    /\ D3DOther

InitD3D == D3DNew /\ ReaderIdle /\ TreeIdle /\ SubsetIdle /\ ScnIdle /\ MainIdle /\ CallIdle
NextD3D == D3DBegin \/ D3DScan \/ D3DReturn
SpecD3D == InitD3D /\ [][NextD3D]_vars

FacesInRange(m) ==
    \A k \in 1..Len(m.faces) : \A j \in 1..3 : m.faces[k][j] < m.nverts

\* C1: every Mesh the embedded scan has emitted has every index of every
\* face strictly below its vertex count.
C1_FaceIndicesInRange ==
    \A k \in 1..Len(dmeshes) : FacesInRange(dmeshes[k])

-----------------------------------------------------------------------------
(* vertex_stride_from_decl, decode_vertex, find_vb_block, parse_mesh_record *)

Bit(n, k) == (n \div (2 ^ k)) % 2

\* decl & 0x400E
BaseSel(decl) == 2 * ((decl \div 2) % 8) + 16384 * Bit(decl, 14)

BaseBytes(decl) ==
    IF BaseSel(decl) \in {2, 4, 6, 8, 10, 12, 14}
    THEN <<12, 16, 16, 20, 24, 28, 32>>[BaseSel(decl) \div 2]
    ELSE 0

UvFmtBytes(fmt) == <<8, 12, 16, 4>>[fmt + 1]

RECURSIVE UvBytes(_, _)
UvBytes(bits, n) ==
    IF n = 0 THEN 0 ELSE UvFmtBytes(bits % 4) + UvBytes(bits \div 4, n - 1)

UvCount(decl) == (decl \div 256) % 16
UvFmtBits(decl) == (decl \div 65536) % 65536

VertexStrideFromDecl(decl) ==
    BaseBytes(decl) + 12 * Bit(decl, 4) + 4 * Bit(decl, 5) + 4 * Bit(decl, 6)
      + 4 * Bit(decl, 7)
      + (IF UvFmtBits(decl) # 0 THEN UvBytes(UvFmtBits(decl), UvCount(decl))
         ELSE 8 * UvCount(decl))

\* decode_vertex: the end, from the vertex's start, of the last
\* struct.unpack_from it does (position, normal, first texture coordinate).
DecodeVertexReadEnd(decl) ==
    LET pos == IF BaseBytes(decl) = 0 THEN 12 ELSE BaseBytes(decl)
        nrm == pos + 12 * Bit(decl, 4)
        skipped == nrm + 4 * Bit(decl, 5) + 4 * Bit(decl, 6) + 4 * Bit(decl, 7)
    IN  IF UvCount(decl) # 0 THEN skipped + UvFmtBytes(UvFmtBits(decl) % 4) ELSE nrm

MaxLegacyVcount == 10000000
MaxTrailing == 64

\* One iteration of the loop of find_vb_block: does desc_off hold a block.
VbBlockAt(p, desc_off) ==
    LET decl == U32At(p, desc_off)
        stride == VertexStrideFromDecl(decl)
        vcount == U32At(p, desc_off + 520)
        ib_hdr_off == desc_off + 524 + stride * vcount
        idx_fmt == U32At(p, ib_hdr_off)
        idx_count == U32At(p, ib_hdr_off + 4)
        end_off == ib_hdr_off + 8 + idx_count * (IF idx_fmt = 0 THEN 2 ELSE 4)
    \* counts above len(payload) are tested before the products, as in D3DBlockAt
    IN  IF ~(12 <= stride /\ stride <= 256) THEN NoBlock
        ELSE IF vcount = 0 \/ vcount > MaxLegacyVcount THEN NoBlock
        ELSE IF vcount > Len(p) \/ ib_hdr_off + 8 > Len(p) THEN NoBlock
        ELSE IF idx_count = 0 \/ idx_count > MaxIdxCountB THEN NoBlock
        ELSE IF idx_fmt \notin {0, 1} THEN NoBlock
        ELSE IF idx_count > Len(p) \/ end_off > Len(p) THEN NoBlock
        ELSE IF Len(p) - end_off > MaxTrailing THEN NoBlock
        ELSE [ok |-> TRUE, desc_off |-> desc_off, decl |-> decl, vcount |-> vcount,
              ib_hdr_off |-> ib_hdr_off, end_off |-> end_off]

\* find_vb_block(payload): the first desc_off that holds a block.
FindVbBlock(p) ==
    IF Len(p) < 520 + 4 + 4 + 8 THEN NoBlock
    ELSE Bind({d \in 0..(Len(p) - (520 + 4 + 8) - 1) : d % 4 = 0 /\ VbBlockAt(p, d).ok},
              LAMBDA hits : IF hits = {} THEN NoBlock ELSE VbBlockAt(p, MinOf(hits)))

NoMesh == [status |-> "none"]
MeshRaised == [status |-> "raised"]
Found(m) == [status |-> "mesh", mesh |-> m]

\* Path A of parse_mesh_record from the vertex count on, for the declaration
\* decl parsed at the start of the payload.
PathAWith(p, decl) ==
    LET v0 == U32At(p, 520)
        v1 == U32At(p, 524)
        v2 == U32At(p, 528)
        pick == IF 0 < v0 /\ v0 <= MaxEmbeddedVcount THEN <<v0, 524>>
                ELSE IF 0 < v1 /\ v1 <= MaxEmbeddedVcount THEN <<v1, 528>>
                ELSE <<v2, 532>>
        vcount == pick[1]
        idx_hdr == pick[2] + decl.stride * vcount
        idx_fmt == U32At(p, idx_hdr)
        idx_count == U32At(p, idx_hdr + 4)
        idx_size == IF idx_fmt = 0 THEN 2 ELSE 4
        ib_off == idx_hdr + 8
    \* counts above len(payload) are tested before the products, as in D3DBlockWith
    IN  IF ~decl.ok THEN NoMesh
        ELSE IF vcount > Len(p) \/ idx_hdr + 8 > Len(p) THEN NoMesh
        ELSE IF idx_fmt \notin {0, 1} THEN NoMesh
        ELSE IF idx_count > Len(p) \/ ib_off + idx_count * idx_size > Len(p) THEN NoMesh
        ELSE Found([kind |-> "pathA", off |-> 0, part |-> 0, nverts |-> vcount,
                    faces |-> FacesAt(p, ib_off, idx_count, idx_size),
                    subsets |-> <<>>])

\* Path A of parse_mesh_record: a block at the start of the payload.
PathA(p) ==
    IF Len(p) < 520 + 4 + 8 THEN NoMesh
    ELSE Bind(ParseD3DDecl520(p, 0), LAMBDA decl : PathAWith(p, decl))

\* The decoding of the block hit of find_vb_block (lines 857-906);
\* decode_vertex raises struct.error on the last vertex when it reads more
\* bytes than the stride.
LegacyMesh(p, hit) ==
    LET stride == VertexStrideFromDecl(hit.decl)
        idx_size == IF U32At(p, hit.ib_hdr_off) = 0 THEN 2 ELSE 4
    IN  IF DecodeVertexReadEnd(hit.decl) > stride THEN MeshRaised
        ELSE Bind(FacesAt(p, hit.ib_hdr_off + 8, U32At(p, hit.ib_hdr_off + 4), idx_size),
                  LAMBDA faces :
                    Found([kind |-> "legacy", off |-> hit.desc_off, part |-> 0,
                           nverts |-> hit.vcount, faces |-> faces,
                           subsets |-> IF faces # <<>>
                                       THEN FindSubsetTable(p, hit.desc_off, hit.vcount,
                                                            Len(faces))
                                       ELSE <<>>]))

\* The end of parse_mesh_record (lines 854-906).
LegacyPath(p) ==
    Bind(FindVbBlock(p), LAMBDA hit : IF ~hit.ok THEN NoMesh ELSE LegacyMesh(p, hit))

\* parse_mesh_record from Path A on, for the payload p.
ParsePayload(p) ==
    Bind(PathA(p),
         LAMBDA a :
           IF a.status = "mesh" THEN a
           ELSE Bind(ExtractD3DMeshBlocks(p),
                     LAMBDA embedded :
                       IF embedded # <<>> THEN Found(embedded[1]) ELSE LegacyPath(p)))

\* parse_mesh_record(record)
ParseMeshRecord(rec) ==
    IF Len(rec) < 12 THEN NoMesh
    ELSE Bind(FindNul(rec, 8),
              LAMBDA nul :
                IF nul < 0 THEN NoMesh
                ELSE Bind(PySlice(rec, nul + 1, Len(rec)), LAMBDA p : ParsePayload(p)))

-----------------------------------------------------------------------------
(* scan_scn0_stride32_mesh_blocks and decode_scn0_stride32_mesh_block.     *)

Scn0Stride == 32
MaxScn0Vcount == 2000000
MaxScn0IbBytes == 500000000
Scn0Sample == 10
\* The bits of the float 200000.0
Float200000 == 1212370944

\* abs(x) <= 200000.0 for the float whose bytes are at offset o: the bits
\* without the sign are at most those of 200000.0 (a NaN has larger ones).
FloatSane(p, o) ==
    p[o + 1] + 256 * p[o + 2] + 65536 * p[o + 3] + 16777216 * (p[o + 4] % 128)
      <= Float200000

\* One iteration of the scan loop for offset off.
Scn0BlockAt(p, off) ==
    LET n == Len(p)
        vcount == U32At(p, off)
        vb_off == off + 4
        tag_off == vb_off + vcount * Scn0Stride
        tag == U32At(p, tag_off)
        ib_bytes == U32At(p, tag_off + 4)
        ib_off == tag_off + 8
        idx_count == ib_bytes \div 2
    IN  IF vcount < 3 \/ vcount > MaxScn0Vcount THEN NoBlock
        ELSE IF tag_off + 8 > n THEN NoBlock
        ELSE IF tag \notin {101, 102} THEN NoBlock
        ELSE IF ib_bytes <= 0 \/ ib_bytes > MaxScn0IbBytes \/ ib_bytes % 2 # 0 THEN NoBlock
        ELSE IF ib_off + ib_bytes > n THEN NoBlock
        ELSE IF idx_count < 3 \/ idx_count % 3 # 0 THEN NoBlock
        ELSE IF ~(FloatSane(p, vb_off) /\ FloatSane(p, vb_off + 4) /\ FloatSane(p, vb_off + 8))
             THEN NoBlock
        ELSE IF \E i \in 0..(Min(Scn0Sample, idx_count) - 1) : U16At(p, ib_off + 2 * i) >= vcount
             THEN NoBlock
        ELSE [ok |-> TRUE, off |-> off, vcount |-> vcount, vb_off |-> vb_off,
              ib_bytes |-> ib_bytes, ib_off |-> ib_off, end_off |-> ib_off + ib_bytes]

\* scan_scn0_stride32_mesh_blocks(payload, start): the offsets of the blocks,
\* in the order of the scan.
Scn0BlockOffsets(p, start) ==
    {off \in Max(0, start)..(Max(0, Len(p) - 16) - 1) : Scn0BlockAt(p, off).ok}

\* decode_scn0_stride32_mesh_block(payload, block)
DecodeScn0Block(p, b) ==
    [kind |-> "scn0", off |-> b.off, part |-> 0, nverts |-> b.vcount,
     faces |-> BuildFaces(ReadIndices(p, b.ib_off, b.ib_bytes \div 2, 2)),
     subsets |-> <<>>]

-----------------------------------------------------------------------------
(* The files of the model.  A file is described by a record and encoded to  *)
(* its bytes by EncodeFile.                                                *)

MaxRecords == 2
MaxBatch == 2

Fill(b, n) == [i \in 1..n |-> b]
SeqsUpTo(n, S) == UNION {[1..k -> S] : k \in 0..n}

RecordName == <<109>>

D3DRecordInput(table, elems, indices) ==
    [pad |-> 0, table |-> table, layout |-> 0, elems |-> elems, vcount |-> MaxVerts,
     h0 |-> 0, indices |-> indices, tail |-> 0]

\* A payload find_vb_block accepts at offset 0: decl flags, vertex-desc, count,
\* vertices of the stride of the flags, index header, indices.
LegacyPayload(decl) ==
    U32LE(decl) \o Zeros(516) \o U32LE(3) \o VertexBytes(3 * VertexStrideFromDecl(decl))
      \o U32LE(0) \o U32LE(3) \o EncodeIndices(<<0, 1, 2>>, 2)

RecordPayload(kind) ==
    CASE kind = "hit" -> D3DPayload(D3DRecordInput(FALSE, DeclPos, <<0, 1, 2>>))
      [] kind = "hit2" ->
           D3DPayload(D3DRecordInput(TRUE, DeclPosNrmUv, <<0, 1, 2, 2, 1, MaxVerts - 1>>))
      [] kind = "bad" -> D3DPayload(D3DRecordInput(FALSE, DeclPos, <<0, 1, MaxVerts>>))
      [] kind = "nofaces" -> D3DPayload(D3DRecordInput(FALSE, DeclPos, <<>>))
      [] kind = "twoidx" -> D3DPayload(D3DRecordInput(FALSE, DeclPos, <<0, 1>>))
      [] kind = "flat" -> D3DPayload(D3DRecordInput(FALSE, DeclPos, <<0, 0, 1, 1>>))
      [] kind = "legacy" -> LegacyPayload(2)
      [] kind = "legacyraise" -> LegacyPayload(16)
      [] kind = "blank" -> Zeros(540)
      [] OTHER -> Zeros(8)

\* u32 size, u32 unk, name, NUL, payload; "short" has no name, "noname" no NUL.
RecordBody(kind) ==
    CASE kind = "short" -> U32LE(0)
      [] kind = "noname" -> U32LE(0) \o <<65, 65, 65, 65>>
      [] OTHER -> U32LE(0) \o RecordName \o <<0>> \o RecordPayload(kind)

RecordBytes(kind) == U32LE(4 + Len(RecordBody(kind))) \o RecordBody(kind)

\* The record with its size field replaced.
RecordSized(kind, size) == U32LE(size) \o RecordBody(kind)

LeafShape == <<<<>>, <<>>>>
TreeBytes(f) ==
    EncodeNode(IF f.lib = 0 THEN LeafShape ELSE <<LeafShape, <<>>>>, <<110, 49>>, 0, 0)

\* One library of one entry with c1 = 1, c2 = 1, c3 = 0, c4 = 1.
LibBytes(f) ==
    U32LE(f.lib)
      \o (IF f.lib = 0 THEN <<>>
          ELSE <<76, 0>> \o U32LE(1) \o <<101, 0>> \o U32LE(1)
                 \o U32LE(1) \o Fill(2, 16) \o U32LE(1) \o Fill(2, 20)
                 \o U32LE(0) \o U32LE(1) \o Fill(2, 68))

MainBytes(f) ==
    U32LE(Len(f.main))
      \o Flatten([i \in 1..Len(f.main) |->
            IF i = 1 /\ f.dmg = "main_small" THEN RecordSized(f.main[i], 3)
            ELSE IF i = 1 /\ f.dmg = "main_zero" THEN RecordSized(f.main[i], 0)
            ELSE IF i = 1 /\ f.dmg = "main_huge" THEN RecordSized(f.main[i], 1048576)
            ELSE RecordBytes(f.main[i])])

ExtraBytes(f) ==
    U32LE(Len(f.extra))
      \o Flatten([i \in 1..Len(f.extra) |->
            (IF i = 1 /\ f.dmg = "extra_small" THEN RecordSized(f.extra[i], 2)
             ELSE IF i = Len(f.extra) /\ f.dmg = "extra_over"
               THEN RecordSized(f.extra[i], Len(RecordBytes(f.extra[i])) + 3)
             ELSE RecordBytes(f.extra[i])) \o <<120, 0>>])

Scn1Bytes(f) ==
    (IF f.dmg = "magic" THEN <<83, 67, 78, 88>> ELSE <<83, 67, 78, 49>>)
      \o U32LE(IF f.dmg = "hdr" THEN 1 ELSE 0)
      \o TreeBytes(f) \o LibBytes(f)
      \o U32LE(f.lib) \o Fill(2, 12 * f.lib)
      \o Fill(3, 12)
      \o MainBytes(f)
      \o U32LE(f.lib) \o (IF f.lib = 0 THEN <<>> ELSE U32LE(0) \o U32LE(0) \o <<116, 0>>)
      \o ExtraBytes(f)

\* A stride-32 block: count, vertices (every float 0.5), tag, ib_bytes, indices.
Scn0BlockBytes(kind) ==
    LET ix == CASE kind = "good" -> <<0, 1, 2>>
                [] kind = "big" -> <<0, 1, 2, 2, 1, MaxVerts - 1>>
                [] OTHER -> <<0, 1, 2, 0, 1, 2, 0, 1, 2, 0, MaxVerts + 1, 2>>
    IN  U32LE(MaxVerts) \o [i \in 1..(Scn0Stride * MaxVerts) |-> IF i % 4 = 0 THEN 63 ELSE 0]
          \o U32LE(101) \o U32LE(2 * Len(ix)) \o EncodeIndices(ix, 2)

Scn0Bytes(f) ==
    <<83, 67, 78, 48>> \o TreeBytes(f)
      \o Flatten([i \in 1..Len(f.main) |-> Scn0BlockBytes(f.main[i])])

EncodeFile(f) ==
    LET full == CASE f.kind = "scn1" -> Scn1Bytes(f)
                  [] f.kind = "scn0" -> Scn0Bytes(f)
                  [] OTHER -> <<82, 73, 70, 70, 0, 0, 0, 0>>
    IN  SubSeq(full, 1, Max(Len(full) - f.cut, 0))

File(kind, lib, main, extra, cut, dmg) ==
    [kind |-> kind, lib |-> lib, main |-> main, extra |-> extra, cut |-> cut, dmg |-> dmg]

\* Well-framed SCN1 files.
Scn1Plain ==
    {File("scn1", lib, main, extra, 0, "none")
       : lib \in 0..1, main \in SeqsUpTo(MaxRecords, {"hit", "miss", "blank"}),
         extra \in SeqsUpTo(1, {"hit", "miss", "legacy"})}

Scn1Special ==
    { File("scn1", 0, <<"hit", "short", "hit2">>, <<"noname", "legacy">>, 0, "none"),
      File("scn1", 0, <<"bad">>, <<>>, 0, "none"),
      File("scn1", 0, <<"nofaces", "legacy">>, <<"nofaces">>, 0, "none"),
      File("scn1", 0, <<"hit">>, <<"legacyraise">>, 0, "none"),
      File("scn1", 1, <<"legacyraise", "hit">>, <<>>, 0, "none") }

\* Files with a wrong magic, header dword or record size.
Scn1Damaged ==
    {File("scn1", 1, <<"miss", "hit">>, <<"miss">>, 0, dmg)
       : dmg \in {"magic", "hdr", "main_small", "main_zero", "main_huge", "extra_small",
                  "extra_over"}}
    \cup
    {File("scn1", 0, <<"hit">>, <<"hit">>, 0, dmg)
       : dmg \in {"magic", "hdr", "main_small", "main_huge", "extra_over"}}

\* Every proper prefix of one file that has each section, and some of another.
TruncBase == File("scn1", 1, <<"miss">>, <<"miss">>, 0, "none")
Scn1Truncated ==
    {File("scn1", 1, <<"miss">>, <<"miss">>, cut, "none") : cut \in 1..Len(Scn1Bytes(TruncBase))}
    \cup
    {File("scn1", 0, <<"hit">>, <<>>, cut, "none") : cut \in {1, 8, 9, 300}}

Scn1Files == Scn1Plain \cup Scn1Special \cup Scn1Damaged \cup Scn1Truncated

\* The files of a batch: SCN1 files of each outcome, SCN0 files with and
\* without a block and with a cut tree, a file of another format, an empty
\* file.
BatchFiles ==
    { File("scn1", 0, <<"hit">>, <<>>, 0, "none"),
      File("scn1", 1, <<"miss">>, <<"miss">>, 0, "none"),
      File("scn1", 1, <<"miss">>, <<"miss">>, 30, "none"),
      File("scn1", 0, <<"hit">>, <<"hit">>, 0, "main_small"),
      File("scn0", 0, <<"good", "big">>, <<>>, 0, "none"),
      File("scn0", 0, <<>>, <<>>, 0, "none"),
      File("scn0", 0, <<>>, <<>>, 2, "none"),
      File("other", 0, <<>>, <<>>, 0, "none"),
      File("other", 0, <<>>, <<>>, 8, "none") }


-----------------------------------------------------------------------------
(* parse_scn1, one step per section or list entry.  A Reader call that     *)
(* raises ends the function: ppc = "error", nothing is returned.           *)

ScnData == pdata

\* The next Reader call of a sequence of statements: skipped once one raised.
ThenU32(d, r) == Bind(r, LAMBDA x : IF x.ok THEN RdU32(d, x.ofs) ELSE x)
ThenCstr(d, r) == Bind(r, LAMBDA x : IF x.ok THEN RdCstr(d, x.ofs) ELSE x)
ThenSkip(d, r, n) == Bind(r, LAMBDA x : IF x.ok THEN RdSkip(d, x.ofs, n) ELSE x)
ThenBytes(d, r, n) == Bind(r, LAMBDA x : IF x.ok THEN RdBytes(d, x.ofs, n) ELSE x)

\* "c = r.u32(); r.skip(width * c)"
ThenCounted(d, r, width) ==
    Bind(ThenU32(d, r), LAMBDA c : ThenSkip(d, c, width * c.val))

\* "rec_size = r.u32(); rec = struct.pack("<I", rec_size) + r.bytes(rec_size - 4)"
ReadRecord(d, ofs) ==
    Bind(ThenBytes(d, RdU32(d, ofs), RdU32(d, ofs).val - 4),
         LAMBDA rest :
           IF rest.ok THEN Returned(rest.ofs, U32LE(U32At(d, ofs)) \o rest.val)
           ELSE Raised(ofs))

\* "mesh is not None and mesh.vertices and mesh.faces"
KeepMesh(r) == r.status = "mesh" /\ r.mesh.nverts > 0 /\ r.mesh.faces # <<>>

KeptOrRaised(r) ==
    IF r.status = "raised" \/ ~KeepMesh(r) THEN [ok |-> FALSE, meshes |-> <<>>]
    ELSE [ok |-> TRUE, meshes |-> <<r.mesh>>]

\* What parse_mesh_record's result adds to the list: [ok, meshes].
Kept(r) ==
    IF r.status = "raised" THEN [ok |-> FALSE, meshes |-> <<>>]
    ELSE [ok |-> TRUE, meshes |-> IF KeepMesh(r) THEN <<r.mesh>> ELSE <<>>]

\* "payload = rec[name_end + 1 :] if name_end > 0 else b"""
MainPayload(rec) ==
    Bind(FindNul(rec, 8),
         LAMBDA name_end : IF name_end > 0 THEN PySlice(rec, name_end + 1, Len(rec)) ELSE <<>>)

\* The embedded meshes and the mesh of parse_mesh_record, both.
MainRecordMeshesBoth(rec) ==
    Bind(ExtractD3DMeshBlocks(MainPayload(rec)),
         LAMBDA embedded :
           Bind(ParseMeshRecord(rec),
                LAMBDA r : [ok |-> Kept(r).ok, meshes |-> embedded \o Kept(r).meshes]))

\* The meshes one main record adds (lines 1586-1606): [ok, meshes].
MainRecordMeshes(rec) ==
    Bind(ExtractD3DMeshBlocks(MainPayload(rec)),
         LAMBDA embedded :
           IF embedded # <<>> THEN [ok |-> TRUE, meshes |-> embedded]
           ELSE Bind(ParseMeshRecord(rec), LAMBDA r : Kept(r)))

\* The meshes one extra record adds (lines 1624-1629).
ExtraRecordMeshes(rec) == Bind(ParseMeshRecord(rec), LAMBDA r : Kept(r))

ScnStart(f, data) ==
    /\ pfile' = f /\ pdata' = data /\ pofs' = 0 /\ ppc' = "magic" /\ pa' = 0 /\ pb' = 0 /\ pn' = 0
    /\ pmeshes' = <<>> /\ pemit' = <<>> /\ pret' = <<>>

ScnNew ==
    /\ pfile \in Scn1Files
    /\ pdata = EncodeFile(pfile)
    /\ pofs = 0 /\ ppc = "magic" /\ pa = 0 /\ pb = 0 /\ pn = 0
    /\ pmeshes = <<>> /\ pemit = <<>> /\ pret = <<>>

\* The exception leaves parse_scn1: no value is returned.
ScnRaise ==
    /\ ppc' = "error"
    /\ UNCHANGED <<pfile, pdata, pofs, pa, pb, pn, pmeshes, pemit, pret>>

\* The reads of a step went through: the cursor and the position move on.
ScnGo(r, pc) ==
    /\ pofs' = r.ofs
    /\ ppc' = pc
    /\ UNCHANGED <<pfile, pdata, pret>>

ScnOther == UNCHANGED <<readerVars, treeVars, subsetVars, d3dVars, mainVars, callVars>>

AnyMagic(magic) == TRUE
\* magic == b"SCN1"
IsScn1Magic(magic) == magic = <<83, 67, 78, 49>>

\* magic = r.bytes(4)
ScnMagic ==
    /\ ppc = "magic"
    /\ \E m \in {RdBytes(ScnData, pofs, 4)} :
           IF ~m.ok \/ ~IsScn1Magic(m.val) THEN ScnRaise
           ELSE ScnGo(m, "header") /\ UNCHANGED <<pa, pb, pn, pmeshes, pemit>>
    /\ ScnOther

\* v = r.u32()
ScnHeader ==
    /\ ppc = "header"
    /\ \E v \in {RdU32(ScnData, pofs)} :
           IF ~v.ok \/ v.val # 0 THEN ScnRaise
           ELSE ScnGo(v, "tree") /\ UNCHANGED <<pa, pb, pn, pmeshes, pemit>>
    /\ ScnOther

\* after_tree = parse_scn_tree(data, r.tell()); r.seek(after_tree); count_a
ScnTree ==
    /\ ppc = "tree"
    /\ \E after \in {ParseScnTree(ScnData, pofs)} :
         \E count_a \in {ThenU32(ScnData, RdSeek(ScnData, pofs, after))} :
           IF after < 0 \/ ~count_a.ok THEN ScnRaise
           ELSE /\ ScnGo(count_a, "lib")
                /\ pa' = count_a.val
                /\ UNCHANGED <<pb, pn, pmeshes, pemit>>
    /\ ScnOther

\* _lib_name = r.cstr(); count_b = r.u32()
ScnLibHeader ==
    /\ ppc = "lib" /\ pb = 0 /\ pa > 0
    /\ \E count_b \in {ThenU32(ScnData, RdCstr(ScnData, pofs))} :
           IF ~count_b.ok THEN ScnRaise
           ELSE /\ ScnGo(count_b, "lib")
                /\ pa' = pa - 1 /\ pb' = count_b.val
                /\ UNCHANGED <<pn, pmeshes, pemit>>
    /\ ScnOther

\* one entry of a library: name, flag, four counted arrays
ScnLibEntry ==
    /\ ppc = "lib" /\ pb > 0
    /\ \E r \in {ThenCounted(ScnData, ThenCounted(ScnData, ThenCounted(ScnData,
                   ThenCounted(ScnData, ThenU32(ScnData, RdCstr(ScnData, pofs)), 16), 20), 16), 68)} :
           IF ~r.ok THEN ScnRaise
           ELSE /\ ScnGo(r, "lib")
                /\ pb' = pb - 1
                /\ UNCHANGED <<pa, pn, pmeshes, pemit>>
    /\ ScnOther

\* pair_count and its entries, the three dwords, mesh_count
ScnPairs ==
    /\ ppc = "lib" /\ pb = 0 /\ pa = 0
    /\ \E mesh_count \in {ThenU32(ScnData, ThenU32(ScnData, ThenU32(ScnData, ThenU32(ScnData,
                            ThenCounted(ScnData, Returned(pofs, 0), 12)))))} :
           IF ~mesh_count.ok THEN ScnRaise
           ELSE /\ ScnGo(mesh_count, "main")
                /\ pn' = mesh_count.val
                /\ UNCHANGED <<pa, pb, pmeshes, pemit>>
    /\ ScnOther

\* one iteration of the mesh list
ScnMainRecord ==
    /\ ppc = "main" /\ pn > 0
    /\ \E rec \in {ReadRecord(ScnData, pofs)} :
         IF ~rec.ok THEN ScnRaise
         ELSE \E got \in {MainRecordMeshes(rec.val)} :
                IF ~got.ok THEN ScnRaise
                ELSE /\ ScnGo(rec, "main")
                     /\ pn' = pn - 1
                     /\ pmeshes' = pmeshes \o got.meshes
                     /\ pemit' = Append(pemit, Len(got.meshes))
                     /\ UNCHANGED <<pa, pb>>
    /\ ScnOther

\* mapping_count = r.u32()
ScnMappingCount ==
    /\ ppc = "main" /\ pn = 0
    /\ \E c \in {RdU32(ScnData, pofs)} :
           IF ~c.ok THEN ScnRaise
           ELSE /\ ScnGo(c, "mapping")
                /\ pn' = c.val
                /\ UNCHANGED <<pa, pb, pmeshes, pemit>>
    /\ ScnOther

\* mesh_index, container_index, tex_name
ScnMappingEntry ==
    /\ ppc = "mapping" /\ pn > 0
    /\ \E r \in {ThenCstr(ScnData, ThenU32(ScnData, RdU32(ScnData, pofs)))} :
           IF ~r.ok THEN ScnRaise
           ELSE /\ ScnGo(r, "mapping")
                /\ pn' = pn - 1
                /\ UNCHANGED <<pa, pb, pmeshes, pemit>>
    /\ ScnOther

\* extra_count = r.u32()
ScnExtraCount ==
    /\ ppc = "mapping" /\ pn = 0
    /\ \E c \in {RdU32(ScnData, pofs)} :
           IF ~c.ok THEN ScnRaise
           ELSE /\ ScnGo(c, "extra")
                /\ pn' = c.val
                /\ UNCHANGED <<pa, pb, pmeshes, pemit>>
    /\ ScnOther

\* one iteration of the extra mesh list: record, parse_mesh_record, name
ScnExtraRecord ==
    /\ ppc = "extra" /\ pn > 0
    /\ \E rec \in {ReadRecord(ScnData, pofs)} :
         IF ~rec.ok THEN ScnRaise
         ELSE \E got \in {ExtraRecordMeshes(rec.val)}, name \in {RdCstr(ScnData, rec.ofs)} :
                IF ~got.ok THEN ScnRaise
                ELSE IF ~name.ok THEN ScnRaise
                ELSE /\ ScnGo(name, "extra")
                     /\ pn' = pn - 1
                     /\ pmeshes' = pmeshes \o got.meshes
                     /\ pemit' = Append(pemit, Len(got.meshes))
                     /\ UNCHANGED <<pa, pb>>
    /\ ScnOther

\* return meshes, mesh_to_tex
ScnReturn ==
    /\ ppc = "extra" /\ pn = 0
    /\ ppc' = "done"
    /\ pret' = <<pmeshes>>
    /\ UNCHANGED <<pfile, pdata, pofs, pa, pb, pn, pmeshes, pemit>>
    /\ ScnOther

InitScn1 == ScnNew /\ ReaderIdle /\ TreeIdle /\ SubsetIdle /\ D3DIdle /\ MainIdle /\ CallIdle
NextScn1 ==
    \/ ScnMagic \/ ScnHeader \/ ScnTree \/ ScnLibHeader \/ ScnLibEntry \/ ScnPairs
    \/ ScnMainRecord \/ ScnMappingCount \/ ScnMappingEntry \/ ScnExtraCount
    \/ ScnExtraRecord \/ ScnReturn
SpecScn1 == InitScn1 /\ [][NextScn1]_vars

Scn1Malformed(f) == f.dmg # "none" \/ f.cut > 0

\* C6: parse_scn1 ends in an error and returns no mesh list when the magic
\* is not "SCN1", the header dword is not 0, a read or skip of the walk
\* crosses the end of the buffer, or a record size is below 4 or larger than
\* the bytes that remain from the record's first byte on.  A wrong magic is
\* met before anything else is read, a wrong header dword before the tree,
\* a wrong size of a main record before any record has been decoded.
C6_MalformedFails ==
    ppc # "idle" =>
      /\ ppc = "error" => pret = <<>>
      /\ Scn1Malformed(pfile) => ppc # "done" /\ pret = <<>>
      /\ PySlice(pdata, 0, 4) # <<83, 67, 78, 49>> => ppc \in {"magic", "error"}
      /\ pfile.dmg = "hdr" => ppc \in {"magic", "header", "error"}
      /\ pfile.dmg \in {"main_small", "main_zero", "main_huge"} => pemit = <<>>
      /\ pfile.dmg = "extra_small" => Len(pemit) <= Len(pfile.main)

\* A record size beyond the end is met after the main records gave a mesh:
\* the call ends in the error and the mesh is returned to nobody.
C6_Witness ==
    /\ ppc = "error" /\ pfile.dmg = "extra_over"
    /\ pmeshes # <<>> /\ pret = <<>>

RecordKinds(f) == f.main \o f.extra

\* Neither the embedded scan (main records) nor parse_mesh_record finds a
\* block in record i of the file.
NoStrategyFinds(f, i) ==
    LET rec == RecordBytes(RecordKinds(f)[i])
    IN  /\ i <= Len(f.main) => ExtractD3DMeshBlocks(MainPayload(rec)) = <<>>
        /\ ParseMeshRecord(rec).status = "none"

\* Decoding record i raises.
RecordRaises(f, i) ==
    LET rec == RecordBytes(RecordKinds(f)[i])
    IN  /\ i <= Len(f.main) => ExtractD3DMeshBlocks(MainPayload(rec)) = <<>>
        /\ ParseMeshRecord(rec).status = "raised"

RECURSIVE SumSeq(_)
SumSeq(q) == IF q = <<>> THEN 0 ELSE Head(q) + SumSeq(Tail(q))

\* C7: in a correctly framed file, a record in which no scan strategy finds
\* a block raises no error and adds no mesh; the records and sections after
\* it are processed, and the call returns the meshes of the other records.
C7_MissIsSkipped ==
    ppc # "idle" /\ ~Scn1Malformed(pfile) =>
      /\ (\A i \in 1..Len(RecordKinds(pfile)) : ~RecordRaises(pfile, i)) => ppc # "error"
      /\ \A i \in 1..Len(pemit) : NoStrategyFinds(pfile, i) => pemit[i] = 0
      /\ \A i \in 1..Len(pemit) : RecordKinds(pfile)[i] = "hit" => pemit[i] = 1
      /\ Len(pmeshes) = SumSeq(pemit)
      /\ ppc = "done" => Len(pemit) = Len(RecordKinds(pfile)) /\ pret = <<pmeshes>>

\* A main record without a block, then one with a block, then an extra
\* record without a block: the call returns the one mesh.
C7_Witness ==
    /\ ppc = "done"
    /\ pfile.main = <<"miss", "hit">> /\ pfile.extra = <<"miss">> /\ pfile.dmg = "none"
    /\ NoStrategyFinds(pfile, 1) /\ NoStrategyFinds(pfile, 3)
    /\ pemit = <<0, 1, 0>> /\ Len(pret[1]) = 1

-----------------------------------------------------------------------------
(* main: the loop over the sorted .scn paths.  Reading a file and writing  *)
(* a package are steps of the environment that succeed or raise OSError.   *)
(* The files hold no "auto\0" block and no texture name, so that every     *)
(* material list of lines 1655-1662, 1677-1687 and 1704-1715 is empty.     *)

Batches == SeqsUpTo(MaxBatch, BatchFiles)

MainNew ==
    /\ mbatch \in Batches
    /\ midx = 1 /\ mpc = "loop" /\ mdata = <<>> /\ mmesh = <<>>
    /\ mvisited = {} /\ mfailed = {} /\ mwritten = {} /\ mret = -1

MainOther == UNCHANGED <<readerVars, treeVars, subsetVars, d3dVars, callVars>>

\* parse_scn1's frame is gone once it has returned or raised.
ScnDrop ==
    /\ pfile' = <<>> /\ pdata' = <<>> /\ pofs' = 0 /\ ppc' = "idle" /\ pa' = 0 /\ pb' = 0
    /\ pn' = 0 /\ pmeshes' = <<>> /\ pemit' = <<>> /\ pret' = <<>>

\* The exception leaves main: the loop is abandoned.
MainExceptAbort(i) ==
    /\ mpc' = "crashed"
    /\ mdata' = <<>> /\ mmesh' = <<>>
    /\ UNCHANGED <<mbatch, midx, mfailed, mwritten, mret>>

\* "except Exception as e: print(...)", then the next iteration.
MainExcept(i) ==
    /\ mfailed' = mfailed \cup {i}
    /\ midx' = i + 1
    /\ mpc' = "loop"
    /\ mdata' = <<>> /\ mmesh' = <<>>
    /\ UNCHANGED <<mbatch, mwritten, mret>>

\* "continue"
MainContinue ==
    /\ midx' = midx + 1
    /\ mpc' = "loop"
    /\ mdata' = <<>> /\ mmesh' = <<>>
    /\ UNCHANGED <<mbatch, mfailed, mwritten, mret>>

MainAtFile == mpc = "loop" /\ midx <= Len(mbatch)

\* data = scn_path.read_bytes() raises
MainReadFails ==
    /\ MainAtFile
    /\ mvisited' = mvisited \cup {midx}
    /\ MainExcept(midx)
    /\ UNCHANGED scnVars
    /\ MainOther

\* head == b"SCN1": parse_scn1 is called
MainOpenScn1 ==
    /\ MainAtFile
    /\ \E data \in {EncodeFile(mbatch[midx])} :
         /\ PySlice(data, 0, 4) = <<83, 67, 78, 49>>
         /\ mdata' = data
         /\ ScnStart(mbatch[midx], data)
    /\ mvisited' = mvisited \cup {midx}
    /\ mpc' = "scn1"
    /\ UNCHANGED <<mbatch, midx, mmesh, mfailed, mwritten, mret>>
    /\ MainOther

\* head == b"SCN0"
MainOpenScn0 ==
    /\ MainAtFile
    /\ \E data \in {EncodeFile(mbatch[midx])} :
         /\ PySlice(data, 0, 4) = <<83, 67, 78, 48>>
         /\ mdata' = data
    /\ mvisited' = mvisited \cup {midx}
    /\ mpc' = "scn0"
    /\ UNCHANGED <<mbatch, midx, mmesh, mfailed, mwritten, mret>>
    /\ UNCHANGED scnVars
    /\ MainOther

\* neither magic: "continue"
MainSkip ==
    /\ MainAtFile
    /\ \E data \in {EncodeFile(mbatch[midx])} :
         PySlice(data, 0, 4) \notin {<<83, 67, 78, 49>>, <<83, 67, 78, 48>>}
    /\ mvisited' = mvisited \cup {midx}
    /\ MainContinue
    /\ UNCHANGED scnVars
    /\ MainOther

\* parse_scn1 raised
MainScn1Raised ==
    /\ mpc = "scn1" /\ ppc = "error"
    /\ MainExcept(midx)
    /\ ScnDrop
    /\ UNCHANGED mvisited
    /\ MainOther

\* The first mesh with the largest (len(vertices), len(faces)).
BestMesh(meshes) ==
    LET better(a, b) == a.nverts > b.nverts \/ (a.nverts = b.nverts /\ Len(a.faces) > Len(b.faces))
        best == {i \in 1..Len(meshes) :
                   /\ \A j \in 1..Len(meshes) : ~better(meshes[j], meshes[i])
                   /\ \A j \in 1..(i - 1) : better(meshes[i], meshes[j])}
    IN  Bind(MinOf(best), LAMBDA i : meshes[i])

\* parse_scn1 returned: "mesh = max(meshes, ...)" raises ValueError on an
\* empty list.
MainScn1Select ==
    /\ mpc = "scn1" /\ ppc = "done"
    /\ IF pret[1] = <<>> THEN MainExcept(midx)
       ELSE /\ \E mesh \in {BestMesh(pret[1])} : mmesh' = <<mesh>>
            /\ mpc' = "write"
            /\ UNCHANGED <<mbatch, midx, mdata, mfailed, mwritten, mret>>
    /\ ScnDrop
    /\ UNCHANGED mvisited
    /\ MainOther

\* The first block with the largest (face count, vcount).
BestBlock(p, offs) ==
    LET key(o) == <<(Scn0BlockAt(p, o).ib_bytes \div 2) \div 3, Scn0BlockAt(p, o).vcount>>
        better(a, b) == key(a)[1] > key(b)[1] \/ (key(a)[1] = key(b)[1] /\ key(a)[2] > key(b)[2])
        best == {o \in offs : /\ \A q \in offs : ~better(q, o)
                              /\ \A q \in offs : q < o => better(o, q)}
    IN  Bind(MinOf(best), LAMBDA o : Scn0BlockAt(p, o))

\* The SCN0 branch up to the decoded mesh: the tree, the scan ("continue"
\* without a block), the choice of the block, its decoding.
MainScn0 ==
    /\ mpc = "scn0"
    /\ \E tree_end \in {ParseScnTree(mdata, 4)} :
         IF tree_end < 0 THEN MainExcept(midx)
         ELSE \E offs \in {Scn0BlockOffsets(mdata, tree_end)} :
                IF offs = {} THEN MainContinue
                ELSE \E chosen_block \in {BestBlock(mdata, offs)} :
                       /\ mmesh' = <<DecodeScn0Block(mdata, chosen_block)>>
                       /\ mpc' = "write"
                       /\ UNCHANGED <<mbatch, midx, mdata, mfailed, mwritten, mret>>
    /\ UNCHANGED <<mvisited, scnVars>>
    /\ MainOther

\* rmtree, mkdir, write_mesh_package: written, or an OSError
MainWrite ==
    /\ mpc = "write"
    /\ \E written \in BOOLEAN :
         IF written
         THEN /\ mwritten' = mwritten \cup {[i |-> midx, mesh |-> mmesh[1]]}
              /\ midx' = midx + 1
              /\ mpc' = "loop"
              /\ mdata' = <<>> /\ mmesh' = <<>>
              /\ UNCHANGED <<mbatch, mfailed, mret>>
         ELSE MainExcept(midx)
    /\ UNCHANGED <<mvisited, scnVars>>
    /\ MainOther

\* the end of the loop: "return 0"
MainReturn ==
    /\ mpc = "loop" /\ midx > Len(mbatch)
    /\ mret' = 0
    /\ mpc' = "returned"
    /\ UNCHANGED <<mbatch, midx, mdata, mmesh, mvisited, mfailed, mwritten, scnVars>>
    /\ MainOther

InitMain == MainNew /\ ReaderIdle /\ TreeIdle /\ SubsetIdle /\ D3DIdle /\ ScnIdle /\ CallIdle
NextMain ==
    \/ MainReadFails \/ MainOpenScn1 \/ MainOpenScn0 \/ MainSkip \/ MainScn1Raised
    \/ MainScn1Select \/ MainScn0 \/ MainWrite \/ MainReturn
    \/ ScnMagic \/ ScnHeader \/ ScnTree \/ ScnLibHeader \/ ScnLibEntry \/ ScnPairs
    \/ ScnMainRecord \/ ScnMappingCount \/ ScnMappingEntry \/ ScnExtraCount
    \/ ScnExtraRecord \/ ScnReturn
SpecMain == InitMain /\ [][NextMain]_vars
\* Every step of main ends: the loop is never left waiting.
SpecMainFair == SpecMain /\ WF_vars(NextMain)

\* Files whose processing raises whatever the environment does.
MustFail(f) ==
    \/ f.kind = "scn1" /\ Scn1Malformed(f)
    \/ f.kind = "scn0" /\ f.cut > 0

\* C8: the batch loop reaches its end and main returns 0 whatever files
\* failed; by then every file of the sorted batch has been begun, each file
\* that fails is among the reported ones, and no reported file was written.
C8_BatchCompletes ==
    /\ <>(mpc = "returned")
    /\ [](mret \in {-1, 0})
    /\ [](mfailed \subseteq mvisited)
    /\ [](mpc = "returned" =>
            /\ mret = 0
            /\ mvisited = 1..Len(mbatch)
            /\ \A i \in 1..Len(mbatch) : MustFail(mbatch[i]) => i \in mfailed
            /\ \A w \in mwritten : w.i \notin mfailed)

\* A file failed and a later file of the batch was written before main
\* returned 0.
C8_Witness ==
    /\ mpc = "returned" /\ mret = 0
    /\ \E i \in mfailed : \E w \in mwritten : w.i > i

-----------------------------------------------------------------------------
(* vertex_stride_from_decl, statement by statement.  A declaration is the  *)
(* pair of its 16-bit halves: decl = lo + 65536 * hi.                      *)

CallOther == UNCHANGED <<readerVars, treeVars, subsetVars, d3dVars, scnVars, mainVars>>

StrideLows ==
    {base + opt + 256 * n :
       base \in {0, 1, 2, 4, 6, 8, 10, 12, 14, 16384, 16386},
       opt \in {0, 16, 32, 64, 128, 240},
       n \in {0, 1, 2, 3, 8, 9, 15}}
StrideHighs == {0, 1, 2, 3, 27, 16384, 49152, 32769, 58368, 65535}

StrideNew ==
    /\ cfun = "vertex_stride_from_decl"
    /\ cin \in {[lo |-> lo, hi |-> hi] : lo \in StrideLows, hi \in StrideHighs}
    /\ cloc = <<>> /\ cout = <<>> /\ cpc = "start"

ShiftSelectorNot(bits) == bits
\* uv_fmt_bits >>= 2
ShiftSelector(bits) == bits \div 4

\* base and the four optional fields (lines 89-108), uv_count, uv_fmt_bits
StrideFixed ==
    /\ cpc = "start"
    /\ cloc' = [stride |-> BaseBytes(cin.lo) + 12 * Bit(cin.lo, 4) + 4 * Bit(cin.lo, 5)
                             + 4 * Bit(cin.lo, 6) + 4 * Bit(cin.lo, 7),
                left |-> IF cin.hi # 0 THEN UvCount(cin.lo) ELSE 0,
                uv_fmt_bits |-> cin.hi]
    /\ cpc' = "uv"
    /\ UNCHANGED <<cfun, cin, cout>>
    /\ CallOther

\* one iteration of "for _ in range(uv_count)"
StrideUvSlot ==
    /\ cpc = "uv" /\ cloc.left > 0
    /\ cloc' = [stride |-> cloc.stride + UvFmtBytes(cloc.uv_fmt_bits % 4),
                left |-> cloc.left - 1,
                uv_fmt_bits |-> ShiftSelector(cloc.uv_fmt_bits)]
    /\ UNCHANGED <<cfun, cin, cout, cpc>>
    /\ CallOther

\* the end of the loop, or "stride += 8 * uv_count"; "return stride"
StrideReturn ==
    /\ cpc = "uv" /\ cloc.left = 0
    /\ cout' = <<IF cin.hi # 0 THEN cloc.stride ELSE cloc.stride + 8 * UvCount(cin.lo)>>
    /\ cpc' = "done"
    /\ UNCHANGED <<cfun, cin, cloc>>
    /\ CallOther

InitStride ==
    /\ StrideNew /\ ReaderIdle /\ TreeIdle /\ SubsetIdle /\ D3DIdle /\ ScnIdle /\ MainIdle
NextStride == StrideFixed \/ StrideUvSlot \/ StrideReturn
SpecStride == InitStride /\ [][NextStride]_vars

\* The sum of the claim, with the 2-bit code of slot k given by CodeOf(k).
ManualBase(lo) ==
    LET masked == 2 * ((lo \div 2) % 8) + 16384 * ((lo \div 16384) % 2)
    IN  CASE masked = 2 -> 12 [] masked = 4 -> 16 [] masked = 6 -> 16 [] masked = 8 -> 20
          [] masked = 10 -> 24 [] masked = 12 -> 28 [] masked = 14 -> 32 [] OTHER -> 0
ManualOptional(lo) ==
    (IF (lo \div 16) % 2 = 1 THEN 12 ELSE 0) + (IF (lo \div 32) % 2 = 1 THEN 4 ELSE 0)
      + (IF (lo \div 64) % 2 = 1 THEN 4 ELSE 0) + (IF (lo \div 128) % 2 = 1 THEN 4 ELSE 0)
ManualCost(code) == CASE code = 0 -> 8 [] code = 1 -> 12 [] code = 2 -> 16 [] OTHER -> 4
RECURSIVE ManualUv(_, _, _)
ManualUv(CodeOf(_), k, n) ==
    IF k >= n THEN 0 ELSE ManualCost(CodeOf(k)) + ManualUv(CodeOf, k + 1, n)
ManualStride(d, CodeOf(_)) ==
    LET n == (d.lo \div 256) % 16
    IN  ManualBase(d.lo) + ManualOptional(d.lo)
          + (IF d.hi = 0 THEN 8 * n ELSE ManualUv(CodeOf, 0, n))

\* Slot k takes bits 16+2k and 17+2k of the declaration; slots 8..14 find
\* the selector used up and take code 0.
CodeLsbFirst(k) == IF k < 8 THEN (cin.hi \div (4 ^ k)) % 4 ELSE 0
\* Slot k takes bits 31-2k and 30-2k.
CodeMsbFirst(k) == IF k < 8 THEN (cin.hi \div (4 ^ (7 - k))) % 4 ELSE 0

\* C11 (as stated): the stride is base + optional fields + UV cost, the
\* selector being consumed most-significant pair first.
C11_StrideMsbFirst ==
    cpc = "done" => cout = <<ManualStride(cin, CodeMsbFirst)>>

\* C11 (amended): the stride is base + optional fields + UV cost, the
\* selector being consumed least-significant pair first: slot k costs
\* 8/12/16/4 for the code in bits 16+2k..17+2k, and 8 from slot 8 on.  For a
\* declaration below 2^31 the operator used by find_vb_block agrees.
C11_StrideLsbFirst ==
    cpc = "done" =>
      /\ cout = <<ManualStride(cin, CodeLsbFirst)>>
      /\ cin.hi < 32768 => VertexStrideFromDecl(cin.lo + 65536 * cin.hi) = cout[1]

\* Two slots with the codes 3 and 2 in the two lowest pairs: 12 + 4 + 16.
C11_Witness ==
    /\ cpc = "done" /\ cin = [lo |-> 2 + 256 * 2, hi |-> 27]
    /\ cout = <<32>>

-----------------------------------------------------------------------------
(* parse_d3d_decl_520, one step per loop iteration.                        *)

MaxDeclInput == 2

\* Elements [stream, offset, typ]: of stream 0 and of other streams, with
\* reaches up to 1024 and above it, with known and with unknown types.
DeclInputElems ==
    { <<0, 0, 2>>, <<0, 12, 2>>, <<0, 1008, 3>>, <<0, 1009, 3>>, <<1, 2000, 2>>,
      <<1, 0, 18>>, <<0, 0, 255>>, <<511, 4, 0>> }

\* The block of an input: its elements, then the end element followed by an
\* element of unknown type ("end"), or 64 - Len(elems) elements of type
\* FLOAT1 and the end element as the 65th ("late"), or no end element among
\* the 65 ("none"); cut or extended to len bytes.
DeclInputBlock(in) ==
    LET front == Flatten([k \in 1..Len(in.elems) |->
                            EncodeElem(in.elems[k][1], in.elems[k][2], in.elems[k][3], 0)])
        fill(n) == Flatten([k \in 1..n |-> EncodeElem(0, 0, 0, 0)])
        body == CASE in.tail = "end" ->
                       front \o EncodeElem(SentinelStream, 0, 17, 0) \o EncodeElem(0, 0, 99, 0)
                         \o Zeros(DeclBytes - 8 * (Len(in.elems) + 2))
                  [] in.tail = "late" ->
                       front \o fill(DeclElems - 1 - Len(in.elems))
                         \o EncodeElem(SentinelStream, 0, 17, 0)
                  [] OTHER -> front \o fill(DeclElems - Len(in.elems))
    IN  SubSeq(body \o Zeros(8), 1, in.len)

DeclInputs ==
    { [elems |-> e, tail |-> t, len |-> DeclBytes]
        : e \in SeqsUpTo(MaxDeclInput, DeclInputElems), t \in {"end", "late", "none"} }
    \cup { [elems |-> <<<<0, 0, 2>>>>, tail |-> "end", len |-> n]
             : n \in {DeclBytes - 1, DeclBytes + 8} }

DeclNew ==
    /\ cfun = "parse_d3d_decl_520"
    /\ \E in \in DeclInputs : cin = [in |-> in, block |-> DeclInputBlock(in)]
    /\ cloc = <<>> /\ cout = <<>> /\ cpc = "start"

DeclReturns(r) ==
    /\ cout' = <<r>>
    /\ cpc' = "done"
    /\ UNCHANGED <<cfun, cin, cloc>>

\* "if len(block) != 520: return None"
DeclBegin ==
    /\ cpc = "start"
    /\ IF Len(cin.block) # DeclBytes THEN DeclReturns(NoDecl)
       ELSE /\ cloc' = [i |-> 0, elems |-> <<>>, stride |-> 0, j |-> 1]
            /\ cpc' = "read"
            /\ UNCHANGED <<cfun, cin, cout>>
    /\ CallOther

\* one iteration of "for i in range(65)"
DeclReadElem ==
    /\ cpc = "read" /\ cloc.i < DeclElems
    /\ \E e \in {D3DElemAt(cin.block, 8 * cloc.i)} :
         /\ cloc' = [cloc EXCEPT !.i = @ + 1, !.elems = Append(@, e)]
         /\ cpc' = IF e.stream = SentinelStream THEN "size" ELSE "read"
    /\ UNCHANGED <<cfun, cin, cout>>
    /\ CallOther

\* "if not end_found: return None"
DeclNoEnd ==
    /\ cpc = "read" /\ cloc.i = DeclElems
    /\ DeclReturns(NoDecl)
    /\ CallOther

\* one iteration of "for stream, offset, typ, ... in elems" before the end
\* element
DeclSizeElem ==
    /\ cpc = "size" /\ cloc.j <= Len(cloc.elems)
    /\ cloc.elems[cloc.j].stream # SentinelStream
    /\ \E e \in {cloc.elems[cloc.j]} :
         IF TypeSize(e.typ) = -1 THEN DeclReturns(NoDecl)
         ELSE /\ cloc' = [cloc EXCEPT !.j = @ + 1,
                                      !.stride = IF e.stream # 0 THEN @
                                                 ELSE Max(@, e.offset + TypeSize(e.typ))]
              /\ UNCHANGED <<cfun, cin, cout, cpc>>
    /\ CallOther

\* the "break" at the end element; the check of the stride; the result
DeclReturn ==
    /\ cpc = "size"
    /\ cloc.j > Len(cloc.elems) \/ cloc.elems[cloc.j].stream = SentinelStream
    /\ IF cloc.stride <= 0 \/ cloc.stride > MaxDeclStride THEN DeclReturns(NoDecl)
       ELSE DeclReturns([ok |-> TRUE, stride |-> cloc.stride, elems |-> cloc.elems])
    /\ CallOther

InitDecl ==
    /\ DeclNew /\ ReaderIdle /\ TreeIdle /\ SubsetIdle /\ D3DIdle /\ ScnIdle /\ MainIdle
NextDecl == DeclBegin \/ DeclReadElem \/ DeclNoEnd \/ DeclSizeElem \/ DeclReturn
SpecDecl == InitDecl /\ [][NextDecl]_vars

\* The sizes of the element types 0..17.
KnownTypeSize(typ) ==
    CASE typ \in {0, 4, 5, 6, 7, 11, 12, 13, 14} -> 4
      [] typ \in {1, 8, 9, 15, 16, 17} -> 8
      [] typ = 2 -> 12
      [] typ \in {3, 10} -> 16

\* The reaches offset + size of the stream-0 elements of an input.
DeclReaches(in) ==
    {in.elems[k][2] + KnownTypeSize(in.elems[k][3]) :
       k \in {n \in 1..Len(in.elems) : in.elems[n][1] = 0 /\ in.elems[n][3] \in 0..17}}
    \cup (IF in.tail = "end" \/ Len(in.elems) >= DeclElems - 1 THEN {} ELSE {4})

\* C12: the result is None when no record of the 65 is an end element, when
\* an element before the end element has a type without a size, whatever
\* its stream, or when the stride exceeds 1024; a result that is returned
\* has the largest offset + size of the stream-0 elements before the end
\* element as its stride, and the elements read up to the end element.
C12_DeclResult ==
    cpc = "done" /\ Len(cin.block) = DeclBytes =>
      LET in == cin.in
          r == cout[1]
      IN  /\ in.tail = "none" => ~r.ok
          /\ (\E k \in 1..Len(in.elems) : in.elems[k][3] \notin 0..17) => ~r.ok
          /\ (\E x \in DeclReaches(in) : x > 1024) => ~r.ok
          /\ r.ok => /\ DeclReaches(in) # {}
                     /\ r.stride = MaxOf(DeclReaches(in))
                     /\ Len(r.elems) = (IF in.tail = "end" THEN Len(in.elems) ELSE DeclElems - 1) + 1
          /\ r = ParseD3DDecl520(cin.block, 0)

\* A stream-0 element that reaches 24 and a stream-1 element that reaches
\* 2012: the stride is 24.
C12_Witness ==
    /\ cpc = "done"
    /\ cin.in = [elems |-> <<<<0, 12, 2>>, <<1, 2000, 2>>>>, tail |-> "end", len |-> DeclBytes]
    /\ cout[1].ok /\ cout[1].stride = 24

-----------------------------------------------------------------------------
(* half_to_float.  A finite non-zero float is the pair [m, e] of the value *)
(* m * 2^e; every value the function computes has a significand of at most *)
(* 11 bits and an exponent in -24..16, so that each binary64 operation    *)
(* below is exact.  Zeros, infinities and NaN are values of their own.     *)

Fl(m, e) == [kind |-> "finite", m |-> m, e |-> e]
FlZero(neg) == [kind |-> "zero", neg |-> neg]
FlInf(neg) == [kind |-> "inf", neg |-> neg]
FlNan == [kind |-> "nan"]

\* a * b, a + b and a / 1024.0 of finite non-zero floats
FlMul(a, b) == Fl(a.m * b.m, a.e + b.e)
FlAdd(a, b) ==
    LET e == Min(a.e, b.e) IN Fl(a.m * 2 ^ (a.e - e) + b.m * 2 ^ (b.e - e), e)
FlDiv1024(a) == Fl(a.m, a.e - 10)
\* 2.0 ** k
FlPow2(k) == Fl(1, k)

\* The same value with an odd m.
RECURSIVE FlNorm(_)
FlNorm(a) ==
    IF a.kind # "finite" \/ a.m % 2 # 0 \/ a.m = 0 THEN a ELSE FlNorm(Fl(a.m \div 2, a.e + 1))

\* s = (h >> 15) & 1
HalfSign(h) == (h \div 32768) % 2
HalfExpNarrow(h) == (h \div 1024) % 16
\* e = (h >> 10) & 0x1F
HalfExp(h) == (h \div 1024) % 32
\* f = h & 0x3FF
HalfFrac(h) == h % 1024

\* -1.0 if s else 1.0
HalfUnit(s) == IF s = 1 THEN Fl(-1, 0) ELSE Fl(1, 0)

HalfNew ==
    /\ cfun = "half_to_float"
    /\ cin \in 0..65535
    /\ cloc = <<>> /\ cout = <<>> /\ cpc = "start"

\* the three fields
HalfSplit ==
    /\ cpc = "start"
    /\ cloc' = [s |-> HalfSign(cin), e |-> HalfExp(cin), f |-> HalfFrac(cin)]
    /\ cpc' = "fields"
    /\ UNCHANGED <<cfun, cin, cout>>
    /\ CallOther

HalfReturns(v) ==
    /\ cout' = <<v>>
    /\ cpc' = "done"
    /\ UNCHANGED <<cfun, cin, cloc>>
    /\ CallOther

\* "return -0.0 if s else 0.0"
HalfZero ==
    /\ cpc = "fields" /\ cloc.e = 0 /\ cloc.f = 0
    /\ HalfReturns(FlZero(cloc.s = 1))

\* "return (-1.0 if s else 1.0) * (f / 1024.0) * (2.0 ** (-14))"
HalfSubnormal ==
    /\ cpc = "fields" /\ cloc.e = 0 /\ cloc.f # 0
    /\ HalfReturns(FlMul(FlMul(HalfUnit(cloc.s), FlDiv1024(Fl(cloc.f, 0))), FlPow2(-14)))

\* "return float("-inf") if s else float("inf")"
HalfInf ==
    /\ cpc = "fields" /\ cloc.e = 31 /\ cloc.f = 0
    /\ HalfReturns(FlInf(cloc.s = 1))

\* "return float("nan")"
HalfNan ==
    /\ cpc = "fields" /\ cloc.e = 31 /\ cloc.f # 0
    /\ HalfReturns(FlNan)

\* "return (-1.0 if s else 1.0) * (1.0 + f / 1024.0) * (2.0 ** (e - 15))";
\* 1.0 + 0.0 is 1.0
HalfNormal ==
    /\ cpc = "fields" /\ cloc.e \notin {0, 31}
    /\ HalfReturns(FlMul(FlMul(HalfUnit(cloc.s),
                               IF cloc.f = 0 THEN Fl(1, 0)
                               ELSE FlAdd(Fl(1, 0), FlDiv1024(Fl(cloc.f, 0)))),
                         FlPow2(cloc.e - 15)))

InitHalf ==
    /\ HalfNew /\ ReaderIdle /\ TreeIdle /\ SubsetIdle /\ D3DIdle /\ ScnIdle /\ MainIdle
NextHalf == HalfSplit \/ HalfZero \/ HalfSubnormal \/ HalfInf \/ HalfNan \/ HalfNormal
SpecHalf == InitHalf /\ [][NextHalf]_vars

\* The binary16 value of the bit pattern h: sign bit 15, exponent bits
\* 10..14 (bias 15), 10 fraction bits, the leading bit 1 unless the
\* exponent field is 0.
Binary16(h) ==
    LET neg == h >= 32768
        ex == ((h % 32768) - (h % 1024)) \div 1024
        fr == h % 1024
        sig == IF ex = 0 THEN fr ELSE 1024 + fr
    IN  IF ex = 31 THEN (IF fr = 0 THEN FlInf(neg) ELSE FlNan)
        ELSE IF sig = 0 THEN FlZero(neg)
        ELSE FlNorm(Fl(IF neg THEN -sig ELSE sig, (IF ex = 0 THEN 1 ELSE ex) - 25))

\* C13: half_to_float(h) is the binary16 value of h, for every 16-bit h; in
\* particular 0x3C00 gives 1.0, 0x0000 gives 0.0, 0x7C00 +infinity and
\* 0x8000 -0.0.
C13_HalfIsBinary16 ==
    cpc = "done" =>
      /\ FlNorm(cout[1]) = Binary16(cin)
      /\ cin = 15360 => FlNorm(cout[1]) = Fl(1, 0)
      /\ cin = 0 => cout[1] = FlZero(FALSE)
      /\ cin = 31744 => cout[1] = FlInf(FALSE)
      /\ cin = 32768 => cout[1] = FlZero(TRUE)

\* 0xC100 is -(1 + 256/1024) * 2^1 = -2.5 = -5 * 2^-1; 0x0001 is the least
\* subnormal 2^-24.
C13_Witness ==
    /\ cpc = "done" /\ cin = 49408
    /\ FlNorm(cout[1]) = Fl(-5, -1)

-----------------------------------------------------------------------------
(* The order of the mesh list of parse_scn1.                               *)

\* The meshes the embedded scan finds in main record i of the file.
EmbeddedOf(f, i) == ExtractD3DMeshBlocks(MainPayload(RecordBytes(RecordKinds(f)[i])))

\* The mesh of parse_mesh_record for record i, if it has vertices and faces.
SingleOf(f, i) ==
    LET r == ParseMeshRecord(RecordBytes(RecordKinds(f)[i]))
    IN  IF r.status = "mesh" /\ r.mesh.nverts > 0 /\ r.mesh.faces # <<>> THEN <<r.mesh>>
        ELSE <<>>

\* What record i adds according to the claim.
AddedBy(f, i) ==
    IF i <= Len(f.main) /\ EmbeddedOf(f, i) # <<>> THEN EmbeddedOf(f, i) ELSE SingleOf(f, i)

IsPrefix(a, b) == Len(a) <= Len(b) /\ SubSeq(b, 1, Len(a)) = a

C14_Order ==
    ppc # "idle" =>
      /\ Len(pemit) <= Len(RecordKinds(pfile))
      /\ ppc \in {"magic", "header", "tree", "lib"} => pemit = <<>>
      /\ ppc = "main" => Len(pemit) <= Len(pfile.main)
      /\ Len(pemit) > Len(pfile.main) => ppc \in {"extra", "done", "error"}
      /\ pmeshes = Flatten([i \in 1..Len(pemit) |-> AddedBy(pfile, i)])
      /\ \A i \in 1..Len(pemit) :
           IF i <= Len(pfile.main) /\ EmbeddedOf(pfile, i) # <<>>
           THEN LET em == EmbeddedOf(pfile, i)
                IN  /\ pemit[i] = Len(em)
                    /\ \A k \in 1..Len(em) : em[k].kind = "embedded"
                    /\ \A k \in 1..(Len(em) - 1) : em[k].off < em[k + 1].off
           ELSE pemit[i] <= 1

\* C14: a main record whose payload holds embedded blocks adds exactly the
\* meshes of the embedded scan, in increasing offset order, and nothing from
\* parse_mesh_record; any other record adds at most one mesh, the one of
\* parse_mesh_record.  The list grows at its end only, in record order, the
\* main records before the extra ones.
C14_EmbeddedFirstInOrder ==
    /\ []C14_Order
    /\ [][IsPrefix(pmeshes, pmeshes') /\ IsPrefix(pemit, pemit')]_vars

\* A main record with one embedded block, one with two, then an extra record
\* decoded by find_vb_block: four meshes in that order.
C14_Witness ==
    /\ ppc = "done"
    /\ pfile.main = <<"hit", "short", "hit2">> /\ pfile.extra = <<"noname", "legacy">>
    /\ pemit = <<1, 0, 2, 0, 1>>
    /\ <<pmeshes[1].kind, pmeshes[2].kind, pmeshes[3].kind, pmeshes[4].kind>>
         = <<"embedded", "embedded", "embedded", "legacy">>
    /\ pmeshes[2].off < pmeshes[3].off
    /\ ParseMeshRecord(RecordBytes("hit")).status = "mesh"

-----------------------------------------------------------------------------
(* scan_scn0_stride32_mesh_blocks(payload, start), one loop iteration per   *)
(* step.                                                                   *)

\* The first vertex position of an input block: 0.5, 200000.0, the float
\* after 200000.0, 2^127.  Every byte stays below 128, as the scan reads a
\* u32 at every offset.
ScanFloatBytes(first) ==
    CASE first = "edge" -> <<0, 80, 67, 72>>
      [] first = "over" -> <<1, 80, 67, 72>>
      [] first = "huge" -> <<0, 0, 0, 127>>
      [] OTHER -> <<0, 0, 0, 63>>

\* The vertex bytes of an input block.  With inner, the bytes 28..31 hold the
\* count 3 of a second block that shares the tag and the indices.
ScanVertexBytes(vc, first, inner) ==
    [i \in 1..(Scn0Stride * vc) |->
        IF i <= 12 THEN ScanFloatBytes(first)[((i - 1) % 4) + 1]
        ELSE IF inner /\ i \in 29..32 THEN <<3, 0, 0, 0>>[i - 28]
        ELSE IF i % 4 = 0 THEN 63 ELSE 0]

ScanBlock(vc, first, inner, tag, ib_bytes, ibytes) ==
    U32LE(vc) \o ScanVertexBytes(vc, first, inner) \o U32LE(tag) \o U32LE(ib_bytes)
      \o ibytes

ScanBlockBytes(kind) ==
    LET tri == EncodeIndices(<<0, 1, 2>>, 2)
        twelve(at) == EncodeIndices([k \in 1..12 |-> IF k = at THEN 5 ELSE (k % 3)], 2)
    IN  CASE kind = "good3" -> ScanBlock(3, "half", FALSE, 101, 6, tri)
          [] kind = "good4" -> ScanBlock(4, "half", FALSE, 102, 12, tri \o tri)
          [] kind = "inner" -> ScanBlock(4, "half", TRUE, 101, 6, tri)
          [] kind = "latebad" -> ScanBlock(3, "half", FALSE, 101, 24, twelve(11))
          [] kind = "tenthbad" -> ScanBlock(3, "half", FALSE, 101, 24, twelve(10))
          [] kind = "firstbad" -> ScanBlock(3, "half", FALSE, 101, 6, EncodeIndices(<<3, 1, 2>>, 2))
          [] kind = "badtag" -> ScanBlock(3, "half", FALSE, 100, 6, tri)
          [] kind = "odd" -> ScanBlock(3, "half", FALSE, 101, 7, tri \o <<0>>)
          [] kind = "two" -> ScanBlock(3, "half", FALSE, 101, 4, <<0, 0, 1, 0>>)
          [] kind = "four" -> ScanBlock(3, "half", FALSE, 101, 8, tri \o <<0, 0>>)
          [] kind = "zero" -> ScanBlock(3, "half", FALSE, 101, 0, <<>>)
          [] kind = "trunc" -> ScanBlock(3, "half", FALSE, 101, 12, tri)
          [] kind = "small" -> ScanBlock(2, "half", FALSE, 101, 6, <<0, 0, 1, 0, 1, 0>>)
          [] kind = "edge" -> ScanBlock(3, "edge", FALSE, 101, 6, tri)
          [] kind = "over" -> ScanBlock(3, "over", FALSE, 101, 6, tri)
          [] kind = "huge" -> ScanBlock(3, "huge", FALSE, 101, 6, tri)
          [] OTHER -> <<>>

ScanKinds ==
    {"good3", "good4", "inner", "latebad", "tenthbad", "firstbad", "badtag", "odd",
     "two", "four", "zero", "trunc", "small", "edge", "over", "huge"}

ScanPayloads ==
    {pre \o ScanBlockBytes(k1) \o ScanBlockBytes(k2)
       : pre \in {<<>>, <<7, 0, 0>>}, k1 \in ScanKinds, k2 \in {"none", "good3", "trunc"}}

ScanStarts == {-5, 0, 3, 33, 120}

ScanNew ==
    /\ cfun = "scan_scn0_stride32_mesh_blocks"
    /\ \E p \in ScanPayloads, s \in ScanStarts : cin = [payload |-> p, start |-> s]
    /\ cloc = <<>> /\ cout = <<>> /\ cpc = "start"

\* "out = []" and the first value of "range(max(0, start), ...)"
ScanBegin ==
    /\ cpc = "start" /\ cfun = "scan_scn0_stride32_mesh_blocks"
    /\ cloc' = [off |-> Max(0, cin.start), out |-> <<>>]
    /\ cpc' = "scan"
    /\ UNCHANGED <<cfun, cin, cout>>
    /\ CallOther

\* The loop goes on while off < max(0, scan_end - 16) and "off + 4 > n" does
\* not break it.
ScanInLoop ==
    /\ cpc = "scan"
    /\ cloc.off < Max(0, Len(cin.payload) - 16)
    /\ ~(cloc.off + 4 > Len(cin.payload))

\* The offset a match leaves the scan at; the offset the loop takes next.
ScanSkipBlock(b, off) == b.end_off
ScanNextOff(b, off) == off + 1

\* an iteration that reaches "out.append({...})"
ScanHit ==
    /\ ScanInLoop
    /\ \E b \in {Scn0BlockAt(cin.payload, cloc.off)} :
         /\ b.ok
         /\ cloc' = [off |-> ScanNextOff(b, cloc.off), out |-> Append(cloc.out, b)]
    /\ UNCHANGED <<cfun, cin, cout, cpc>>
    /\ CallOther

\* an iteration that ends in one of the "continue"s
ScanMiss ==
    /\ ScanInLoop
    /\ ~Scn0BlockAt(cin.payload, cloc.off).ok
    /\ cloc' = [cloc EXCEPT !.off = @ + 1]
    /\ UNCHANGED <<cfun, cin, cout, cpc>>
    /\ CallOther

\* "return out"
ScanReturn ==
    /\ cpc = "scan" /\ ~ScanInLoop
    /\ cout' = <<cloc.out>>
    /\ cpc' = "done"
    /\ UNCHANGED <<cfun, cin, cloc>>
    /\ CallOther

InitScan ==
    /\ ScanNew /\ ReaderIdle /\ TreeIdle /\ SubsetIdle /\ D3DIdle /\ ScnIdle /\ MainIdle
NextScan == ScanBegin \/ ScanHit \/ ScanMiss \/ ScanReturn
SpecScan == InitScan /\ [][NextScan]_vars

\* The float at offset o lies within 200000 in magnitude: with exponent field
\* e and fraction m its magnitude is (2^23 + m) * 2^(e - 150), and
\* 200000 = 12800000 * 2^(144 - 150).
WithinMagnitude(p, o) ==
    LET e == 2 * (p[o + 4] % 128) + (p[o + 3] \div 128)
        m == p[o + 1] + 256 * p[o + 2] + 65536 * (p[o + 3] % 128)
    IN  e < 144 \/ (e = 144 /\ 8388608 + m <= 64 * 200000)

\* The validity predicates of a stride-32 block at offset off.
Scn0ValidAt(p, off) ==
    /\ off + 4 <= Len(p)
    /\ U32At(p, off) \in 3..2000000
    /\ LET vc == U32At(p, off)
           t == off + 4 + 32 * vc
       IN  /\ t + 8 <= Len(p)
           /\ U32At(p, t) \in {101, 102}
           /\ LET ibb == U32At(p, t + 4)
              IN  /\ ibb > 0 /\ ibb % 2 = 0 /\ ibb <= 500000000
                  /\ t + 8 + ibb <= Len(p)
                  /\ (ibb \div 2) % 3 = 0
                  /\ \A c \in 0..2 : WithinMagnitude(p, off + 4 + 4 * c)
                  /\ \A i \in 1..10 : i <= ibb \div 2 => U16At(p, t + 8 + 2 * (i - 1)) < vc

-----------------------------------------------------------------------------
(* decode_scn0_stride32_mesh_block on a block that the scan reports.        *)

\* struct.unpack_from("<f", p, o): the binary32 value of four bytes.
F32At(p, o) ==
    LET neg == p[o + 4] >= 128
        e == 2 * (p[o + 4] % 128) + (p[o + 3] \div 128)
        m == p[o + 1] + 256 * p[o + 2] + 65536 * (p[o + 3] % 128)
        s == IF neg THEN -1 ELSE 1
    IN  IF e = 255 THEN (IF m = 0 THEN FlInf(neg) ELSE FlNan)
        ELSE IF e = 0 THEN (IF m = 0 THEN FlZero(neg) ELSE FlNorm(Fl(s * m, -149)))
        ELSE FlNorm(Fl(s * (8388608 + m), e - 150))

\* 1.0 - v
FlOneMinus(v) ==
    CASE v.kind = "zero" -> Fl(1, 0)
      [] v.kind = "inf" -> FlInf(~v.neg)
      [] v.kind = "nan" -> FlNan
      [] OTHER -> LET r == FlAdd(Fl(1, 0), Fl(-v.m, v.e))
                  IN  IF r.m = 0 THEN FlZero(FALSE) ELSE FlNorm(r)

\* The floats of the input vertices: 0.5, 0.75, 2.0, 3.0, 0.125.
Block32Floats == << <<0, 0, 0, 63>>, <<0, 0, 64, 63>>, <<0, 0, 0, 64>>, <<0, 0, 64, 64>>,
                    <<0, 0, 0, 62>> >>

\* Vertex i holds float (i + c) % 5 as its component c; the position of
\* vertex 0 is given by first.
Block32VertexBytes(vc, first) ==
    [j \in 1..(Scn0Stride * vc) |->
        LET i == (j - 1) \div Scn0Stride
            c == ((j - 1) % Scn0Stride) \div 4
            k == ((j - 1) % 4) + 1
        IN  IF i = 0 /\ c < 3 /\ first # "half" THEN ScanFloatBytes(first)[k]
            ELSE Block32Floats[((i + c) % 5) + 1][k]]

\* The index lists of an input block of vc vertices: every index is below vc.
Block32Indices(vc) ==
    { <<>>, <<0, 1>>, <<0, 1, vc - 1>>, <<0, 1, vc - 1, 1>>, <<0, 1, vc - 1, vc - 1, 1, 0>>,
      [k \in 1..12 |-> k % vc] }

Block32Params ==
    {[vc |-> vc, tag |-> tag, ix |-> ix, first |-> first, pre |-> pre]
       : vc \in {2, 3, MaxVerts}, tag \in {101, 102}, ix \in UNION {Block32Indices(v) : v \in {2, 3, MaxVerts}},
         first \in {"half", "edge", "over"}, pre \in {<<>>, <<7, 0, 0>>}}

Block32Bytes(b) ==
    b.pre \o U32LE(b.vc) \o Block32VertexBytes(b.vc, b.first) \o U32LE(b.tag)
      \o U32LE(2 * Len(b.ix)) \o EncodeIndices(b.ix, 2)

Block32New ==
    /\ cfun = "decode_scn0_stride32_mesh_block"
    /\ \E b \in Block32Params, flip_v, swap_yz \in BOOLEAN :
         /\ \A k \in 1..Len(b.ix) : b.ix[k] < b.vc
         /\ \E start \in {0, Len(b.pre)} :
              cin = [payload |-> Block32Bytes(b), start |-> start, block |-> b,
                     flip_v |-> flip_v, swap_yz |-> swap_yz]
    /\ cloc = <<>> /\ cout = <<>> /\ cpc = "start"

\* The call with one of the blocks that the scan from start reports; no call
\* when it reports none.
Block32Call ==
    /\ cpc = "start" /\ cfun = "decode_scn0_stride32_mesh_block"
    /\ \E offs \in {Scn0BlockOffsets(cin.payload, cin.start)} :
         IF offs = {} THEN /\ cpc' = "unreported"
                           /\ UNCHANGED cloc
         ELSE \E off \in offs :
                /\ cloc' = [block |-> Scn0BlockAt(cin.payload, off), i |-> 0,
                            vertices |-> <<>>, normals |-> <<>>, uvs |-> <<>>]
                /\ cpc' = "vertex"
    /\ UNCHANGED <<cfun, cin, cout>>
    /\ CallOther

\* "if swap_yz: y, z = z, y" and "if flip_v: v = 1.0 - v"
SwapNever(t, swap_yz) == t
Swap(t, swap_yz) == IF swap_yz THEN <<t[1], t[3], t[2]>> ELSE t
FlipV(v, flip_v) == IF flip_v THEN FlOneMinus(v) ELSE v

\* one iteration of "for i in range(vcount)"
Block32Vertex ==
    /\ cpc = "vertex" /\ cloc.i < cloc.block.vcount
    /\ \E base \in {cloc.block.vb_off + cloc.i * Scn0Stride} :
       \E f \in {[c \in 0..7 |-> F32At(cin.payload, base + 4 * c)]} :
         cloc' = [cloc EXCEPT
                    !.i = @ + 1,
                    !.vertices = Append(@, Swap(<<f[0], f[1], f[2]>>, cin.swap_yz)),
                    !.normals = Append(@, Swap(<<f[3], f[4], f[5]>>, cin.swap_yz)),
                    !.uvs = Append(@, <<f[6], FlipV(f[7], cin.flip_v)>>)]
    /\ UNCHANGED <<cfun, cin, cout, cpc>>
    /\ CallOther

\* "for i in range(0, len(indices), 3): a, b, c = indices[i : i + 3]"
Block32FacesShifted(ix) ==
    [k \in 1..(Len(ix) \div 3) |-> <<ix[3 * k - 1], ix[3 * k], ix[3 * k - 2]>>]
Block32Faces(ix) ==
    [k \in 1..(Len(ix) \div 3) |-> <<ix[3 * k - 2], ix[3 * k - 1], ix[3 * k]>>]

\* the index buffer, the faces and "return Mesh(...)"; the unpacking of a
\* last slice of fewer than three indices raises
Block32Return ==
    /\ cpc = "vertex" /\ cloc.i >= cloc.block.vcount
    /\ \E ix \in {ReadIndices(cin.payload, cloc.block.ib_off, cloc.block.ib_bytes \div 2, 2)} :
         IF Len(ix) % 3 # 0 THEN cout' = <<MeshRaised>>
         ELSE cout' = <<[status |-> "mesh", off |-> cloc.block.off,
                         vertices |-> cloc.vertices, normals |-> cloc.normals,
                         uvs |-> cloc.uvs, faces |-> Block32Faces(ix)]>>
    /\ cpc' = "done"
    /\ UNCHANGED <<cfun, cin, cloc>>
    /\ CallOther

InitBlock32 ==
    /\ Block32New /\ ReaderIdle /\ TreeIdle /\ SubsetIdle /\ D3DIdle /\ ScnIdle /\ MainIdle
NextBlock32 == Block32Call \/ Block32Vertex \/ Block32Return
SpecBlock32 == InitBlock32 /\ [][NextBlock32]_vars

\* The block of the input is reported at its offset.
Block32Reported ==
    Len(cin.block.pre) \in Scn0BlockOffsets(cin.payload, cin.start)

\* The Mesh decoded from the block of the input has vcount vertices, each
\* with a normal and a UV, and ib_bytes/6 faces, face k being the indices
\* 3k, 3k+1, 3k+2 of the index buffer.
Block32Decoded ==
    (cpc = "done" /\ cloc.block.off = Len(cin.block.pre)) =>
        /\ cout[1].status = "mesh"
        /\ LET mesh == cout[1]
               b == cin.block
           IN  /\ Len(mesh.vertices) = b.vc
               /\ Len(mesh.normals) = b.vc /\ Len(mesh.uvs) = b.vc
               /\ \A i \in 1..b.vc : Len(mesh.normals[i]) = 3 /\ Len(mesh.uvs[i]) = 2
               /\ 6 * Len(mesh.faces) = 2 * Len(b.ix)
               /\ \A k \in 0..(Len(mesh.faces) - 1) :
                    mesh.faces[k + 1] = <<b.ix[3 * k + 1], b.ix[3 * k + 2], b.ix[3 * k + 3]>>

\* C16 as stated: every block of the layout (count, vertices, tag 101 or
\* 102, ib_bytes, indices below the count) at or after the start of the scan
\* is reported at its offset and decoded to the Mesh of its vertices and
\* index triples.
C16_EveryBlockReported ==
    cfun = "decode_scn0_stride32_mesh_block" => (Block32Reported /\ Block32Decoded)

\* C16: a block of the layout whose count is in 3..2000000, whose first
\* position lies within 200000 on each axis and whose ib_bytes is a positive
\* multiple of 6 (at most 500000000) is reported at its offset and decoded
\* to the Mesh of its vertices and index triples.
C16_ValidBlockReported ==
    (/\ cfun = "decode_scn0_stride32_mesh_block"
     /\ cin.block.vc \in 3..2000000
     /\ cin.block.first # "over"
     /\ Len(cin.block.ix) > 0 /\ (2 * Len(cin.block.ix)) % 6 = 0
     /\ 2 * Len(cin.block.ix) <= 500000000)
        => (Block32Reported /\ Block32Decoded)

\* The example of the claim behind three other bytes: tag 101, 4 vertices,
\* ib_bytes 12, decoded with both switches set.
C16_Witness ==
    /\ cfun = "decode_scn0_stride32_mesh_block" /\ cpc = "done"
    /\ cin.block.vc = 4 /\ cin.block.tag = 101 /\ Len(cin.block.ix) = 6
    /\ cin.block.pre # <<>> /\ cin.flip_v /\ cin.swap_yz
    /\ cout[1].status = "mesh"
    /\ Len(cout[1].faces) = 2
    /\ cout[1].uvs[1] = <<Fl(3, -2), Fl(-1, 0)>>
    /\ cout[1].normals[1] = <<Fl(3, 0), Fl(1, -1), Fl(1, -3)>>

-----------------------------------------------------------------------------
(* parse_scn1 on a file whose mesh record holds one declaration block, with *)
(* the vertices that decode_vertex_d3d reads from it.                      *)

\* The loop of decode_vertex_d3d from element k on: acc is [pos, nrm, uv]
\* with <<>> for None.  vb[base + offset] is read as p[vb_off + ...].
RECURSIVE DecodeVertexFrom(_, _, _, _, _, _)
DecodeVertexFrom(elems, k, p, base, flags, acc) ==
    IF k > Len(elems) THEN acc
    ELSE LET e == elems[k]
             at == base + e.offset
             f3 == <<F32At(p, at), F32At(p, at + 4), F32At(p, at + 8)>>
             next(a) == DecodeVertexFrom(elems, k + 1, p, base, flags, a)
         IN  IF e.stream = SentinelStream THEN acc
             ELSE IF e.stream # 0 THEN next(acc)
             ELSE IF e.usage = 0 /\ acc.pos = <<>>
               THEN next(IF e.typ = 2 THEN [acc EXCEPT !.pos = Swap(f3, flags.swap_yz)] ELSE acc)
             ELSE IF e.usage = 3 /\ acc.nrm = <<>>
               THEN next(IF e.typ = 2 THEN [acc EXCEPT !.nrm = Swap(f3, flags.swap_yz)] ELSE acc)
             ELSE IF e.usage = 5 /\ e.usage_idx = 0 /\ acc.uv = <<>>
               THEN next(IF e.typ = 1
                         THEN [acc EXCEPT !.uv = <<F32At(p, at),
                                                   FlipV(F32At(p, at + 4), flags.flip_v)>>]
                         ELSE acc)
             ELSE next(acc)

\* decode_vertex_d3d(elems, vb, i, stride, flip_v, swap_yz) for the vertex
\* buffer at vb_off of p; the same with every vertex read at the base 0.
DecodeVertexD3DFirst(elems, p, vb_off, i, stride, flags) ==
    Bind(DecodeVertexFrom(elems, 1, p, vb_off, flags,
                          [pos |-> <<>>, nrm |-> <<>>, uv |-> <<>>]),
         LAMBDA r : IF r.pos = <<>>
                    THEN [r EXCEPT !.pos = <<FlZero(FALSE), FlZero(FALSE), FlZero(FALSE)>>]
                    ELSE r)
DecodeVertexD3D(elems, p, vb_off, i, stride, flags) ==
    Bind(DecodeVertexFrom(elems, 1, p, vb_off + i * stride, flags,
                          [pos |-> <<>>, nrm |-> <<>>, uv |-> <<>>]),
         LAMBDA r : IF r.pos = <<>>
                    THEN [r EXCEPT !.pos = <<FlZero(FALSE), FlZero(FALSE), FlZero(FALSE)>>]
                    ELSE r)

\* "for i in range(vcount): pos, nrm, uv = decode_vertex_d3d(...)" for the
\* block of payload at off
D3DVertices(payload, off, flags) ==
    Bind(D3DBlockAt(payload, off),
         LAMBDA b : [i \in 1..b.vcount |->
                       DecodeVertexD3D(b.elems, payload, b.vb_off, i - 1, b.stride, flags)])

\* The input files: the name of the record, the floats of the vertices, the
\* index list, and the lists around the record.
QuadFiles ==
    {[name |-> name, shift |-> shift, ix |-> ix, lib |-> lib, extra |-> extra, dmg |-> "none"]
       : name \in {<<109>>, <<109, 110>>}, shift \in 0..1,
         ix \in {<<0, 1, 2, 2, 1, 3>>, <<0, 0, 1, 3, 3, 3>>, <<0, 1, 2, 3>>},
         lib \in 0..1, extra \in {<<>>, <<"miss">>}}

\* Component c of vertex i is float (i + c + shift) % 5 of 0.5, 0.75, 2.0,
\* 3.0, 0.125.
QuadVertexBytes(q) ==
    [j \in 1..(32 * 4) |->
        LET i == (j - 1) \div 32
            c == ((j - 1) % 32) \div 4
        IN  Block32Floats[((i + c + q.shift) % 5) + 1][((j - 1) % 4) + 1]]

QuadPayload(q) ==
    EncodeDecl(DeclPosNrmUv) \o U32LE(4) \o QuadVertexBytes(q)
      \o U32LE(0) \o U32LE(Len(q.ix)) \o EncodeIndices(q.ix, 2)

QuadRecord(q) ==
    Bind(U32LE(0) \o q.name \o <<0>> \o QuadPayload(q),
         LAMBDA body : U32LE(4 + Len(body)) \o body)

QuadBytes(q) ==
    <<83, 67, 78, 49>> \o U32LE(0) \o TreeBytes(q) \o LibBytes(q)
      \o U32LE(q.lib) \o Fill(2, 12 * q.lib)
      \o Fill(3, 12)
      \o U32LE(1) \o QuadRecord(q)
      \o U32LE(q.lib) \o (IF q.lib = 0 THEN <<>> ELSE U32LE(0) \o U32LE(0) \o <<116, 0>>)
      \o ExtraBytes(q)

QuadNew ==
    /\ pfile \in QuadFiles
    /\ pdata = QuadBytes(pfile)
    /\ pofs = 0 /\ ppc = "magic" /\ pa = 0 /\ pb = 0 /\ pn = 0
    /\ pmeshes = <<>> /\ pemit = <<>> /\ pret = <<>>
    /\ cfun = "parse_scn1"
    /\ cin \in [flip_v : BOOLEAN, swap_yz : BOOLEAN]
    /\ cloc = <<>> /\ cout = <<>> /\ cpc = "idle"

\* one iteration of the mesh list, with the vertices of the embedded meshes:
\* cloc holds, for every mesh of the list, its decoded vertices (<<>> for a
\* mesh of parse_mesh_record)
QuadMainRecord ==
    /\ ppc = "main" /\ pn > 0
    /\ \E rec \in {ReadRecord(ScnData, pofs)} :
         IF ~rec.ok THEN ScnRaise /\ UNCHANGED <<pa, pb, pn, pmeshes, pemit, cloc>>
         ELSE \E got \in {MainRecordMeshes(rec.val)}, payload \in {MainPayload(rec.val)} :
                IF ~got.ok THEN ScnRaise /\ UNCHANGED <<pa, pb, pn, pmeshes, pemit, cloc>>
                ELSE /\ ScnGo(rec, "main")
                     /\ pn' = pn - 1
                     /\ pmeshes' = pmeshes \o got.meshes
                     /\ pemit' = Append(pemit, Len(got.meshes))
                     /\ cloc' = cloc \o [k \in 1..Len(got.meshes) |->
                                           IF got.meshes[k].kind = "embedded"
                                           THEN D3DVertices(payload, got.meshes[k].off, cin)
                                           ELSE <<>>]
                     /\ UNCHANGED <<pa, pb>>
    /\ UNCHANGED <<readerVars, treeVars, subsetVars, d3dVars, mainVars, cfun, cin, cout, cpc>>

InitQuad ==
    /\ QuadNew /\ ReaderIdle /\ TreeIdle /\ SubsetIdle /\ D3DIdle /\ MainIdle
NextQuad ==
    \/ ScnMagic \/ ScnHeader \/ ScnTree \/ ScnLibHeader \/ ScnLibEntry \/ ScnPairs
    \/ QuadMainRecord \/ ScnMappingCount \/ ScnMappingEntry \/ ScnExtraCount
    \/ ScnExtraRecord \/ ScnReturn
SpecQuad == InitQuad /\ [][NextQuad]_vars

\* The floats written into the vertices.
QuadValue(q, i, c) ==
    <<Fl(1, -1), Fl(3, -2), Fl(1, 1), Fl(3, 0), Fl(1, -3)>>[((i + c + q.shift) % 5) + 1]

\* The file of the claim: empty library, pairs, mapping and extra lists, six
\* indices.
QuadPremise(q) == q.lib = 0 /\ q.extra = <<>> /\ Len(q.ix) = 6

\* One Mesh of 4 vertices and 2 faces, the UV of vertex i being injected
\* floats 6 and 7 of the vertex with V flipped when flip_v is set.
QuadOneMesh ==
    /\ Len(pret[1]) = 1
    /\ pret[1][1].nverts = 4 /\ Len(pret[1][1].faces) = 2
    /\ Len(cloc) = 1 /\ Len(cloc[1]) = 4
    /\ \A i \in 0..3 :
         cloc[1][i + 1].uv =
           <<QuadValue(pfile, i, 6),
             IF cin.flip_v THEN FlOneMinus(QuadValue(pfile, i, 7)) ELSE QuadValue(pfile, i, 7)>>

\* C17 as stated: the file parses to one Mesh of 4 vertices and 2 faces
\* whose normals and UVs are the injected values, V being 1 - v under
\* flip_v.
C17_InjectedNormals ==
    (cfun = "parse_scn1" /\ ppc = "done" /\ QuadPremise(pfile)) =>
        /\ QuadOneMesh
        /\ \A i \in 0..3 :
             cloc[1][i + 1].nrm = <<QuadValue(pfile, i, 3), QuadValue(pfile, i, 4),
                                    QuadValue(pfile, i, 5)>>

\* C17: the file parses to one Mesh of 4 vertices and 2 faces whose normals
\* and UVs are the injected values, V being 1 - v under flip_v and the Y and
\* Z of a normal exchanged under swap_yz.
C17_InjectedNormalsSwapped ==
    (cfun = "parse_scn1" /\ ppc = "done" /\ QuadPremise(pfile)) =>
        /\ QuadOneMesh
        /\ \A i \in 0..3 :
             cloc[1][i + 1].nrm =
               IF cin.swap_yz
               THEN <<QuadValue(pfile, i, 3), QuadValue(pfile, i, 5), QuadValue(pfile, i, 4)>>
               ELSE <<QuadValue(pfile, i, 3), QuadValue(pfile, i, 4), QuadValue(pfile, i, 5)>>

\* The file of the claim parsed with both switches set: vertex 0 has the
\* normal (3.0, 0.5, 0.125) and the UV (0.75, 1 - 2.0).
C17_Witness ==
    /\ cfun = "parse_scn1" /\ ppc = "done" /\ QuadPremise(pfile)
    /\ pfile.shift = 0 /\ cin.flip_v /\ cin.swap_yz
    /\ Len(pret[1]) = 1
    /\ pret[1][1].faces = <<<<0, 1, 2>>, <<2, 1, 3>>>>
    /\ cloc[1][1].nrm = <<Fl(3, 0), Fl(1, -1), Fl(1, -3)>>
    /\ cloc[1][1].uv = <<Fl(3, -2), Fl(-1, 0)>>

-----------------------------------------------------------------------------
(* extract_auto_material_blocks(record_bytes), one occurrence of the        *)
(* needle or one entry per step.                                           *)

MaxAutoPieces == 3
MaxEntryCount == 64

AutoNeedle == <<97, 117, 116, 111, 0>>

\* record_bytes.find(needle, start): the lowest offset >= start at which the
\* needle lies, or -1.
FindNeedle(d, start) ==
    LET hits == {o \in Max(start, 0)..(Len(d) - Len(AutoNeedle)) :
                   SubSeq(d, o + 1, o + Len(AutoNeedle)) = AutoNeedle}
    IN  IF hits = {} THEN -1 ELSE MinOf(hits)

\* bytes.decode("utf-8", "replace") of the bytes of the model: a byte below
\* 128 is its character, any other byte here is a lone one and becomes U+FFFD.
DecodeUtf8(b) == [i \in 1..Len(b) |-> IF b[i] < 128 THEN b[i] ELSE 65533]

\* read_cstr(buf, ofs): [ok, val, ofs]; ok = FALSE is the ValueError.
ReadCstr(buf, ofs) ==
    Bind(FindNul(buf, ofs),
         LAMBDA end : IF end < 0 THEN [ok |-> FALSE, val |-> <<>>, ofs |-> ofs]
                      ELSE [ok |-> TRUE, val |-> DecodeUtf8(SubSeq(buf, ofs + 1, end)),
                            ofs |-> end + 1])

\* One iteration of "for _ in range(entry_count)": [ok, entry, ofs]; ok =
\* FALSE is the exception of read_cstr or of struct.unpack_from.
ReadAutoEntry(buf, ofs) ==
    Bind(ReadCstr(buf, ofs),
         LAMBDA key :
           IF ~key.ok THEN [ok |-> FALSE]
           ELSE Bind(ReadCstr(buf, key.ofs),
                     LAMBDA val :
                       IF ~val.ok \/ val.ofs + 8 > Len(buf) THEN [ok |-> FALSE]
                       ELSE [ok |-> TRUE, ofs |-> val.ofs + 8,
                             entry |-> [key |-> key.val, value |-> val.val,
                                        flag1 |-> U32At(buf, val.ofs),
                                        flag2 |-> U32At(buf, val.ofs + 4)]]))

AutoCstr(s) == s \o <<0>>
AutoEntryBytes(k, v) == AutoCstr(k) \o AutoCstr(v) \o U32LE(1) \o U32LE(0)

\* The pieces of the input records: well-formed blocks of one and of two
\* entries, a block inside the first entry of a block, counts 0 and 65, one
\* entry for the count 3 (the entry loop runs into the next piece and raises
\* at the end of the record), an unterminated string, cut flags, no room for
\* the count, other bytes.
AutoPiece(kind) ==
    CASE kind = "one" -> AutoNeedle \o U32LE(1) \o AutoEntryBytes(<<107>>, <<118>>)
      [] kind = "two" -> AutoNeedle \o U32LE(2) \o AutoEntryBytes(<<107>>, <<118>>)
                           \o AutoEntryBytes(<<>>, <<200>>)
      [] kind = "nested" -> AutoNeedle \o U32LE(1) \o AutoNeedle \o U32LE(1)
                              \o AutoEntryBytes(<<107>>, <<118>>)
      [] kind = "zero" -> AutoNeedle \o U32LE(0)
      [] kind = "many" -> AutoNeedle \o U32LE(MaxEntryCount + 1) \o AutoEntryBytes(<<107>>, <<118>>)
      [] kind = "missing" -> AutoNeedle \o U32LE(3) \o AutoEntryBytes(<<107>>, <<118>>)
      [] kind = "open" -> AutoNeedle \o U32LE(1) \o <<107, 107>>
      [] kind = "cut" -> AutoNeedle \o U32LE(1) \o AutoCstr(<<107>>) \o AutoCstr(<<118>>) \o <<1, 1, 1>>
      [] kind = "noroom" -> AutoNeedle \o <<1, 1>>
      [] OTHER -> <<97, 117, 5>>

AutoKinds ==
    {"one", "two", "nested", "zero", "many", "missing", "open", "cut", "noroom", "other"}

AutoRecords ==
    {Flatten([i \in 1..Len(ks) |-> AutoPiece(ks[i])]) : ks \in SeqsUpTo(MaxAutoPieces, AutoKinds)}

AutoNew ==
    /\ cfun = "extract_auto_material_blocks"
    /\ cin \in AutoRecords
    /\ cloc = [start |-> 0, blocks |-> <<>>]
    /\ cout = <<>> /\ cpc = "find"

\* "idx = record_bytes.find(needle, start)"
AutoIdx == FindNeedle(cin, cloc.start)

\* Where the scan goes on after an occurrence that raised; a scan that gives
\* up instead.
AutoGiveUp(idx, n) == n
AutoAfterRaise(idx, n) == idx + 1

\* "if idx < 0: break", "if idx + 5 + 4 > len(record_bytes): break" and
\* "return blocks"
AutoReturn ==
    /\ cpc = "find"
    /\ AutoIdx < 0 \/ AutoIdx + 5 + 4 > Len(cin)
    /\ cout' = <<cloc.blocks>>
    /\ cpc' = "done"
    /\ UNCHANGED <<cfun, cin, cloc>>
    /\ CallOther

\* "if entry_count == 0 or entry_count > 64: start = idx + 1; continue"
AutoBadCount ==
    /\ cpc = "find"
    /\ \E idx \in {AutoIdx} :
         /\ idx >= 0 /\ idx + 5 + 4 <= Len(cin)
         /\ U32At(cin, idx + 5) = 0 \/ U32At(cin, idx + 5) > MaxEntryCount
         /\ cloc' = [start |-> idx + 1, blocks |-> cloc.blocks]
    /\ UNCHANGED <<cfun, cin, cout, cpc>>
    /\ CallOther

\* "ofs = idx + 9; entries = []"
AutoBegin ==
    /\ cpc = "find"
    /\ \E idx \in {AutoIdx} :
         /\ idx >= 0 /\ idx + 5 + 4 <= Len(cin)
         /\ U32At(cin, idx + 5) \in 1..MaxEntryCount
         /\ cloc' = [start |-> cloc.start, blocks |-> cloc.blocks, idx |-> idx,
                     entry_count |-> U32At(cin, idx + 5), ofs |-> idx + 9, entries |-> <<>>]
    /\ cpc' = "entries"
    /\ UNCHANGED <<cfun, cin, cout>>
    /\ CallOther

\* an iteration of the entry loop that goes through
AutoEntry ==
    /\ cpc = "entries" /\ Len(cloc.entries) < cloc.entry_count
    /\ \E e \in {ReadAutoEntry(cin, cloc.ofs)} :
         /\ e.ok
         /\ cloc' = [cloc EXCEPT !.ofs = e.ofs, !.entries = Append(@, e.entry)]
    /\ UNCHANGED <<cfun, cin, cout, cpc>>
    /\ CallOther

\* an iteration that raises: "except Exception: start = idx + 1"
AutoEntryRaises ==
    /\ cpc = "entries" /\ Len(cloc.entries) < cloc.entry_count
    /\ ~ReadAutoEntry(cin, cloc.ofs).ok
    /\ cloc' = [start |-> AutoAfterRaise(cloc.idx, Len(cin)), blocks |-> cloc.blocks]
    /\ cpc' = "find"
    /\ UNCHANGED <<cfun, cin, cout>>
    /\ CallOther

\* "blocks.append({...}); start = idx + 1"
AutoAppend ==
    /\ cpc = "entries" /\ Len(cloc.entries) >= cloc.entry_count
    /\ cloc' = [start |-> cloc.idx + 1,
                blocks |-> Append(cloc.blocks, [off |-> cloc.idx, entry_count |-> cloc.entry_count,
                                                entries |-> cloc.entries])]
    /\ cpc' = "find"
    /\ UNCHANGED <<cfun, cin, cout>>
    /\ CallOther

InitAuto ==
    /\ AutoNew /\ ReaderIdle /\ TreeIdle /\ SubsetIdle /\ D3DIdle /\ ScnIdle /\ MainIdle
NextAuto ==
    AutoReturn \/ AutoBadCount \/ AutoBegin \/ AutoEntry \/ AutoEntryRaises \/ AutoAppend
SpecAuto == InitAuto /\ [][NextAuto]_vars
\* The function runs on: no step of it waits for anything.
SpecAutoFair == SpecAuto /\ WF_vars(NextAuto)

\* The offset after one whole entry at ofs (two terminated strings and eight
\* bytes), or -1.
WholeEntryEnd(d, ofs) ==
    LET nuls == {o \in ofs..(Len(d) - 1) : d[o + 1] = 0}
        seconds == {o \in nuls : \E k \in nuls : k < o}
    IN  IF seconds = {} THEN -1
        ELSE IF MinOf(seconds) + 9 > Len(d) THEN -1
        ELSE MinOf(seconds) + 9

RECURSIVE WholeEntries(_, _, _)
WholeEntries(d, ofs, n) ==
    IF n = 0 THEN TRUE
    ELSE WholeEntryEnd(d, ofs) >= 0 /\ WholeEntries(d, WholeEntryEnd(d, ofs), n - 1)

\* A well-formed occurrence at idx: the needle, a count in 1..64, that many
\* whole entries.
AutoWellFormedAt(d, idx) ==
    /\ idx + 9 <= Len(d)
    /\ SubSeq(d, idx + 1, idx + 5) = <<97, 117, 116, 111, 0>>
    /\ U32At(d, idx + 5) \in 1..64
    /\ WholeEntries(d, idx + 9, U32At(d, idx + 5))

C18_Returned ==
    (cfun = "extract_auto_material_blocks" /\ cpc = "done") =>
        LET blocks == cout[1]
        IN  /\ \A i, j \in 1..Len(blocks) : i < j => blocks[i].off < blocks[j].off
            /\ {blocks[i].off : i \in 1..Len(blocks)}
                 = {idx \in 0..(Len(cin) - 1) : AutoWellFormedAt(cin, idx)}
            /\ \A i \in 1..Len(blocks) :
                 /\ blocks[i].entry_count = U32At(cin, blocks[i].off + 5)
                 /\ Len(blocks[i].entries) = blocks[i].entry_count

\* C18: on every byte string extract_auto_material_blocks ends by returning
\* its list; the list holds, in increasing offset order, exactly the
\* well-formed occurrences of the needle (a malformed occurrence before or
\* after does not hide one), each with entry_count entries.
C18_AutoSkipsMalformed ==
    /\ []C18_Returned
    /\ (cfun = "extract_auto_material_blocks") ~> (cpc = "done")

\* A well-formed block returned from behind an occurrence with the count 0
\* and one whose third entry is cut by the end of the record.
C18_Witness ==
    /\ cfun = "extract_auto_material_blocks" /\ cpc = "done"
    /\ cin = AutoPiece("zero") \o AutoPiece("missing") \o AutoPiece("one")
    /\ Len(cout[1]) = 1
    /\ cout[1][1].off = Len(AutoPiece("zero")) + Len(AutoPiece("missing"))
    /\ Len(cout[1][1].entries) = 1

-----------------------------------------------------------------------------
(* auto_blocks_to_material_sets on the blocks of a record, and              *)
(* color_maps_to_material_sets: the material sets that a Mesh is given.     *)
(* A string is the sequence of its characters, a dict a function.          *)

ColorMapKey == <<67, 111, 108, 111, 114, 77, 97, 112>>
NormalMapKey == <<78, 111, 114, 109, 97, 108, 77, 97, 112>>
LuminosityMapKey == <<76, 117, 109, 105, 110, 111, 115, 105, 116, 121, 77, 97, 112>>
ReflectionMapKey == <<82, 101, 102, 108, 101, 99, 116, 105, 111, 110, 77, 97, 112>>

\* "m[key] = val"
DictSet(m, key, val) == [k \in (DOMAIN m) \cup {key} |-> IF k = key THEN val ELSE m[k]]

\* "if key and val": no other condition is put on the key
StoresEntry(key, val) == key # <<>> /\ val # <<>>

\* "for e in b.get("entries", []): ... if key and val: m[key] = val" from
\* entry k on
RECURSIVE SetOfEntries(_, _, _)
SetOfEntries(entries, k, m) ==
    IF k > Len(entries) THEN m
    ELSE SetOfEntries(entries, k + 1,
                      IF StoresEntry(entries[k].key, entries[k].value)
                      THEN DictSet(m, entries[k].key, entries[k].value)
                      ELSE m)

\* The entries of the input blocks: ColorMap and NormalMap with a file name,
\* a key "Gloss", an empty value, an empty key.
SetEntryKinds == {"color", "normal", "gloss", "novalue", "nokey"}
SetEntryBytes(kind) ==
    CASE kind = "color" -> AutoEntryBytes(ColorMapKey, <<97, 46, 100, 100, 115>>)
      [] kind = "normal" -> AutoEntryBytes(NormalMapKey, <<110, 46, 100, 100, 115>>)
      [] kind = "gloss" -> AutoEntryBytes(<<71, 108, 111, 115, 115>>, <<103>>)
      [] kind = "novalue" -> AutoEntryBytes(ColorMapKey, <<>>)
      [] OTHER -> AutoEntryBytes(<<>>, <<120>>)

SetBlockBytes(kinds) ==
    AutoNeedle \o U32LE(Len(kinds)) \o Flatten([i \in 1..Len(kinds) |-> SetEntryBytes(kinds[i])])

\* Records of up to two blocks of one or two entries, and three records with
\* an occurrence that is skipped.
SetRecords ==
    {Flatten([i \in 1..Len(bs) |-> SetBlockBytes(bs[i])])
       : bs \in SeqsUpTo(2, SeqsUpTo(2, SetEntryKinds) \ {<<>>})}
    \cup {AutoPiece("zero") \o SetBlockBytes(<<"color">>),
          AutoPiece("missing") \o SetBlockBytes(<<"color">>),
          SetBlockBytes(<<"normal">>) \o AutoPiece("cut")}

\* The index -> filename maps of the inference: "a_k.dds" for some indices.
SetColorMaps ==
    {[i \in S |-> <<97, 95, 48 + i, 46, 100, 100, 115>>] : S \in SUBSET (0..2)}

SetsNew ==
    \/ /\ cfun = "auto_blocks_to_material_sets"
       /\ cin \in SetRecords
       /\ cloc = [start |-> 0, blocks |-> <<>>]
       /\ cout = <<>> /\ cpc = "find"
    \/ /\ cfun = "color_maps_to_material_sets"
       /\ cin \in SetColorMaps
       /\ cloc = <<>> /\ cout = <<>> /\ cpc = "color"

\* auto_blocks_to_material_sets(extract_auto_material_blocks(rec)): the call
\* with the blocks that the extraction returned
SetsAutoBegin ==
    /\ cfun = "auto_blocks_to_material_sets" /\ cpc = "done"
    /\ cloc' = [blocks |-> cout[1], i |-> 1, out |-> <<>>]
    /\ cout' = <<>>
    /\ cpc' = "sets"
    /\ UNCHANGED <<cfun, cin>>
    /\ CallOther

\* one iteration of "for b in blocks"
SetsAutoBlock ==
    /\ cpc = "sets" /\ cloc.i <= Len(cloc.blocks)
    /\ \E m \in {SetOfEntries(cloc.blocks[cloc.i].entries, 1, <<>>)} :
         cloc' = [cloc EXCEPT !.i = @ + 1, !.out = Append(@, m)]
    /\ UNCHANGED <<cfun, cin, cout, cpc>>
    /\ CallOther

\* "return out", and the list becomes mesh.material_sets
SetsAutoReturn ==
    /\ cpc = "sets" /\ cloc.i > Len(cloc.blocks)
    /\ cout' = <<cloc.out>>
    /\ cpc' = "attached"
    /\ UNCHANGED <<cfun, cin, cloc>>
    /\ CallOther

\* "if not color_maps: return []", else "out = [{} for _ in range(need)]"
SetsColorBegin ==
    /\ cpc = "color"
    /\ IF DOMAIN cin = {}
       THEN /\ cout' = << <<>> >>
            /\ cpc' = "attached"
            /\ UNCHANGED cloc
       ELSE /\ cloc' = [todo |-> DOMAIN cin, out |-> [k \in 1..(MaxOf(DOMAIN cin) + 1) |-> <<>>]]
            /\ cpc' = "items"
            /\ UNCHANGED cout
    /\ UNCHANGED <<cfun, cin>>
    /\ CallOther

\* one iteration of "for idx, fname in color_maps.items()"
SetsColorItem ==
    /\ cpc = "items"
    /\ \E idx \in cloc.todo :
         cloc' = [todo |-> cloc.todo \ {idx},
                  out |-> [cloc.out EXCEPT ![idx + 1] = DictSet(@, ColorMapKey, cin[idx])]]
    /\ UNCHANGED <<cfun, cin, cout, cpc>>
    /\ CallOther

SetsColorReturn ==
    /\ cpc = "items" /\ cloc.todo = {}
    /\ cout' = <<cloc.out>>
    /\ cpc' = "attached"
    /\ UNCHANGED <<cfun, cin, cloc>>
    /\ CallOther

InitSets ==
    /\ SetsNew /\ ReaderIdle /\ TreeIdle /\ SubsetIdle /\ D3DIdle /\ ScnIdle /\ MainIdle
NextSets ==
    \/ AutoReturn \/ AutoBadCount \/ AutoBegin \/ AutoEntry \/ AutoEntryRaises \/ AutoAppend
    \/ SetsAutoBegin \/ SetsAutoBlock \/ SetsAutoReturn
    \/ SetsColorBegin \/ SetsColorItem \/ SetsColorReturn
SpecSets == InitSets /\ [][NextSets]_vars

SlotVocabulary == {ColorMapKey, NormalMapKey, LuminosityMapKey, ReflectionMapKey}

\* C19: every key of every material set given to a Mesh, from auto blocks
\* or from the inferred file names, is one of ColorMap, NormalMap,
\* LuminosityMap, ReflectionMap.
C19_KeysInVocabulary ==
    cpc = "attached" =>
        \A i \in 1..Len(cout[1]) : DOMAIN cout[1][i] \subseteq SlotVocabulary

-----------------------------------------------------------------------------
(* infer_scn0_material_color_maps(data, base_hint), one string of the data  *)
(* per step.                                                               *)

MaxStrings == 3
MaxCstrLen == 260
MaxTexIndex == 999

IsPrintable(b) == 32 <= b /\ b < 127
IsAlpha(c) == c \in 65..90 \/ c \in 97..122
IsAlnum(c) == c \in 48..57 \/ IsAlpha(c)

\* The end j of the run that the inner loop of iter_cstrings walks from i.
CstrRunEnd(data, i) ==
    MinOf({j \in i..Len(data) :
             \/ j = Len(data)
             \/ data[j + 1] = 0
             \/ ~IsPrintable(data[j + 1])
             \/ j - i >= MaxCstrLen})

\* "any(c.isalpha() for c in s) and "." in s and "/" not in s and "\\" not in s"
FilenameLike(s) ==
    /\ \E k \in 1..Len(s) : IsAlpha(s[k])
    /\ \E k \in 1..Len(s) : s[k] = 46
    /\ \A k \in 1..Len(s) : s[k] # 47 /\ s[k] # 92

\* iter_cstrings() from offset i on: the strings it yields.
RECURSIVE IterCstrings(_, _)
IterCstrings(data, i) ==
    IF i >= Len(data) THEN <<>>
    ELSE IF ~IsPrintable(data[i + 1]) THEN IterCstrings(data, i + 1)
    ELSE Bind(CstrRunEnd(data, i),
              LAMBDA j :
                IF j < Len(data) /\ data[j + 1] = 0 /\ j - i >= 4
                THEN (IF FilenameLike(SubSeq(data, i + 1, j))
                      THEN <<SubSeq(data, i + 1, j)>> ELSE <<>>)
                       \o IterCstrings(data, j + 1)
                ELSE IterCstrings(data, i + 1))

\* int(idx_s)
RECURSIVE DigitsValue(_)
DigitsValue(ds) ==
    IF ds = <<>> THEN 0
    ELSE 10 * DigitsValue(SubSeq(ds, 1, Len(ds) - 1)) + (ds[Len(ds)] - 48)

\* tex_pat.match(s): [ok, prefix, idx_s] for PREFIX_<digits>.EXT with an
\* alphanumeric prefix and an alphanumeric EXT of 2 to 5 characters.
TexMatch(s) ==
    LET us == {k \in 1..Len(s) : s[k] = 95}
        u == MinOf(us)
        ds == {k \in (u + 1)..Len(s) : s[k] = 46}
        d == MinOf(ds)
    IN  IF us = {} \/ u = 1 THEN [ok |-> FALSE]
        ELSE IF ds = {} \/ d = u + 1 THEN [ok |-> FALSE]
        ELSE IF /\ \A k \in 1..(u - 1) : IsAlnum(s[k])
                /\ \A k \in (u + 1)..(d - 1) : s[k] \in 48..57
                /\ Len(s) - d \in 2..5
                /\ \A k \in (d + 1)..Len(s) : IsAlnum(s[k])
          THEN [ok |-> TRUE, prefix |-> SubSeq(s, 1, u - 1), idx_s |-> SubSeq(s, u + 1, d - 1)]
          ELSE [ok |-> FALSE]

\* a < b for two strings
StrLess(a, b) ==
    \E k \in 1..(Len(a) + 1) :
        /\ \A j \in 1..(k - 1) : j <= Len(b) /\ a[j] = b[j]
        /\ k <= Len(b)
        /\ k > Len(a) \/ a[k] < b[k]

\* "max(sorted(by_prefix), key=lambda k: (len(by_prefix[k]), k))"
Richest(by_prefix) ==
    CHOOSE k \in DOMAIN by_prefix :
        \A j \in (DOMAIN by_prefix) \ {k} :
            \/ Cardinality(DOMAIN by_prefix[j]) < Cardinality(DOMAIN by_prefix[k])
            \/ /\ Cardinality(DOMAIN by_prefix[j]) = Cardinality(DOMAIN by_prefix[k])
               /\ StrLess(j, k)

\* The suffixes tried after the hint, in their order; the same in another
\* order.
HintSuffixesUFirst == << <<85>>, <<69>>, <<>> >>
HintSuffixes == << <<69>>, <<85>>, <<>> >>

\* The strings of the input data, each with the prefix and the index it
\* names (-1: the family pattern does not accept it).
InferTokens ==
    { [name |-> <<97, 69, 95, 48, 46, 100, 100, 115>>, prefix |-> <<97, 69>>, idx |-> 0],
      [name |-> <<97, 85, 95, 48, 46, 100, 100, 115>>, prefix |-> <<97, 85>>, idx |-> 0],
      [name |-> <<97, 95, 48, 46, 100, 100, 115>>, prefix |-> <<97>>, idx |-> 0],
      [name |-> <<98, 95, 48, 46, 100, 100, 115>>, prefix |-> <<98>>, idx |-> 0],
      [name |-> <<98, 95, 48, 49, 46, 112, 110, 103>>, prefix |-> <<98>>, idx |-> 1],
      [name |-> <<98, 95, 49, 46, 100, 100, 115>>, prefix |-> <<98>>, idx |-> 1],
      [name |-> <<98, 95, 49, 48, 48, 48, 46, 100, 100, 115>>, prefix |-> <<98>>, idx |-> -1] }

InferHints == {<<>>, <<97>>, <<98>>, <<99>>}

InferNew ==
    /\ cfun = "infer_scn0_material_color_maps"
    /\ \E ts \in SeqsUpTo(MaxStrings, InferTokens), hint \in InferHints :
         cin = [tokens |-> ts, base_hint |-> hint,
                data |-> <<1, 2>> \o Flatten([i \in 1..Len(ts) |-> ts[i].name \o <<0>>])]
    /\ cloc = <<>> /\ cout = <<>> /\ cpc = "start"

\* "by_prefix = {}" and the strings of iter_cstrings()
InferBegin ==
    /\ cpc = "start" /\ cfun = "infer_scn0_material_color_maps"
    /\ cloc' = [strings |-> IterCstrings(cin.data, 0), k |-> 1, by_prefix |-> <<>>]
    /\ cpc' = "gather"
    /\ UNCHANGED <<cfun, cin, cout>>
    /\ CallOther

\* one iteration of "for s in iter_cstrings()"
InferString ==
    /\ cpc = "gather" /\ cloc.k <= Len(cloc.strings)
    /\ \E s \in {cloc.strings[cloc.k]} :
       \E m \in {TexMatch(s)} :
         IF ~m.ok \/ DigitsValue(m.idx_s) > MaxTexIndex
         THEN cloc' = [cloc EXCEPT !.k = @ + 1]
         ELSE cloc' = [cloc EXCEPT
                         !.k = @ + 1,
                         !.by_prefix =
                            DictSet(@, m.prefix,
                                    DictSet(IF m.prefix \in DOMAIN @ THEN @[m.prefix] ELSE <<>>,
                                            DigitsValue(m.idx_s), s))]
    /\ UNCHANGED <<cfun, cin, cout, cpc>>
    /\ CallOther

InferGathered == cpc = "gather" /\ cloc.k > Len(cloc.strings)

InferReturns(base, map) ==
    /\ cout' = <<[base |-> base, map |-> map]>>
    /\ cpc' = "done"
    /\ UNCHANGED <<cfun, cin, cloc>>

\* "if not by_prefix: return {}"
InferNothing ==
    /\ InferGathered /\ DOMAIN cloc.by_prefix = {}
    /\ InferReturns(<<>>, <<>>)
    /\ CallOther

\* The candidates of the hint that are families, by their place in the loop
\* "for suffix in ("E", "U", "")".
HintFound ==
    IF cin.base_hint = <<>> THEN {}
    ELSE {i \in 1..3 : (cin.base_hint \o HintSuffixes[i]) \in DOMAIN cloc.by_prefix}

\* the family of the hint
InferByHint ==
    /\ InferGathered /\ DOMAIN cloc.by_prefix # {} /\ HintFound # {}
    /\ \E base \in {cin.base_hint \o HintSuffixes[MinOf(HintFound)]} :
         InferReturns(base, cloc.by_prefix[base])
    /\ CallOther

\* "if base is None": the richest family
InferRichest ==
    /\ InferGathered /\ DOMAIN cloc.by_prefix # {} /\ HintFound = {}
    /\ \E base \in {Richest(cloc.by_prefix)} : InferReturns(base, cloc.by_prefix[base])
    /\ CallOther

InitInfer ==
    /\ InferNew /\ ReaderIdle /\ TreeIdle /\ SubsetIdle /\ D3DIdle /\ ScnIdle /\ MainIdle
NextInfer == InferBegin \/ InferString \/ InferNothing \/ InferByHint \/ InferRichest
SpecInfer == InitInfer /\ [][NextInfer]_vars

\* The families of the input and their indices, from the set of its strings.
InferMembers == {cin.tokens[i] : i \in {j \in 1..Len(cin.tokens) : cin.tokens[j].idx >= 0}}
InferFamilies == {t.prefix : t \in InferMembers}
InferIndices(p) == {t.idx : t \in {u \in InferMembers : u.prefix = p}}

\* The family the claim names: hint + "E", else hint + "U", else the hint,
\* else the family of the most indices and, among those, of the greatest
\* prefix.
InferExpected ==
    LET h == cin.base_hint
        most == {p \in InferFamilies :
                   \A q \in InferFamilies : Cardinality(InferIndices(q)) <= Cardinality(InferIndices(p))}
    IN  IF h # <<>> /\ (h \o <<69>>) \in InferFamilies THEN h \o <<69>>
        ELSE IF h # <<>> /\ (h \o <<85>>) \in InferFamilies THEN h \o <<85>>
        ELSE IF h # <<>> /\ h \in InferFamilies THEN h
        ELSE CHOOSE p \in most : \A q \in most : q = p \/ StrLess(q, p)

\* C20: the family chosen is the one of the hint (E, then U, then the hint
\* itself) or else the one of the most distinct indices, ties going to the
\* greatest prefix; it is a function of the set of strings, not of their
\* order; the result maps each index of that family to one of its file
\* names.
C20_FamilyChosen ==
    (cfun = "infer_scn0_material_color_maps" /\ cpc = "done") =>
        IF InferFamilies = {} THEN cout[1].map = <<>>
        ELSE /\ cout[1].base = InferExpected
             /\ DOMAIN cout[1].map = InferIndices(InferExpected)
             /\ \A i \in DOMAIN cout[1].map :
                  \E t \in InferMembers :
                      t.prefix = InferExpected /\ t.idx = i /\ t.name = cout[1].map[i]

\* No hint, the families a, aU and b with one index each and b first in
\* the data: the family b is chosen.
C20_Witness ==
    /\ cfun = "infer_scn0_material_color_maps" /\ cpc = "done"
    /\ cin.base_hint = <<>>
    /\ Len(cin.tokens) = 3
    /\ cin.tokens[1].prefix = <<98>> /\ cin.tokens[2].prefix = <<97, 85>>
    /\ cin.tokens[3].prefix = <<97>>
    /\ cout[1].base = <<98>>
    /\ DOMAIN cout[1].map = {0}

-----------------------------------------------------------------------------
(* choose_scn0_material_sets(data, base_hint): the extraction of the auto   *)
(* blocks step by step, then the sets of the blocks or the inference from   *)
(* the file names. The hint is drawn where it is first read.               *)

\* "m.get(k)" taken as a condition
Truthy(m, k) == k \in DOMAIN m /\ m[k] # <<>>

\* str.lower() on the characters of the model
Lower(s) == [i \in 1..Len(s) |-> IF s[i] \in 65..90 THEN s[i] + 32 ELSE s[i]]

\* Path(s).name for a path without a trailing separator: what follows the
\* last "/".
PathName(s) ==
    LET seps == {k \in 1..Len(s) : s[k] = 47}
    IN  IF seps = {} THEN s ELSE SubSeq(s, MaxOf(seps) + 1, Len(s))

StartsWith(s, p) == Len(p) <= Len(s) /\ SubSeq(s, 1, Len(p)) = p

\* "[m for m in auto_sets if Path(m.get("ColorMap", "")).name.lower().startswith(fam.lower())]"
FamilySets(sets, fam) ==
    SelectSeq(sets, LAMBDA m : StartsWith(Lower(PathName(m[ColorMapKey])), Lower(fam)))

\* The sets kept by "if base_hint:": those of hint + "E", else those of
\* hint + "U", else all.
HintedSets(sets, hint) ==
    IF hint = <<>> THEN sets
    ELSE IF FamilySets(sets, hint \o <<69>>) # <<>> THEN FamilySets(sets, hint \o <<69>>)
    ELSE IF FamilySets(sets, hint \o <<85>>) # <<>> THEN FamilySets(sets, hint \o <<85>>)
    ELSE sets

\* score(m) and "score(m) > score(cur)"
Score(m) == <<Cardinality({k \in SlotVocabulary : Truthy(m, k)}), Cardinality(DOMAIN m)>>
ScoreGreater(a, b) == a[1] > b[1] \/ (a[1] = b[1] /\ a[2] > b[2])

\* "for m in auto_sets: ... best[cm] = m" from set k on; names holds the keys
\* of best in the order of their insertion.
RECURSIVE BestOf(_, _, _, _)
BestOf(sets, k, names, best) ==
    IF k > Len(sets) THEN [names |-> names, best |-> best]
    ELSE Bind(PathName(sets[k][ColorMapKey]),
              LAMBDA cm :
                IF cm = <<>> THEN BestOf(sets, k + 1, names, best)
                ELSE IF cm \notin DOMAIN best
                  THEN BestOf(sets, k + 1, Append(names, cm), DictSet(best, cm, sets[k]))
                ELSE IF ScoreGreater(Score(sets[k]), Score(best[cm]))
                  THEN BestOf(sets, k + 1, names, DictSet(best, cm, sets[k]))
                ELSE BestOf(sets, k + 1, names, best))

\* trailing_idx(name): the number of the first "_<digits>." of the name, or
\* 10**9, and the lowered name.
TrailingIdx(name) ==
    LET RunEnd(u) == MinOf({e \in u..Len(name) : e = Len(name) \/ name[e + 1] \notin 48..57})
        hits == {u \in 1..Len(name) :
                   /\ name[u] = 95
                   /\ RunEnd(u) > u
                   /\ RunEnd(u) < Len(name)
                   /\ name[RunEnd(u) + 1] = 46}
    IN  IF hits = {} THEN [idx |-> 1000000000, low |-> Lower(name)]
        ELSE [idx |-> DigitsValue(SubSeq(name, MinOf(hits) + 1, RunEnd(MinOf(hits)))),
              low |-> Lower(name)]

TrailingLess(a, b) == a.idx < b.idx \/ (a.idx = b.idx /\ StrLess(a.low, b.low))

\* "sorted(best.keys(), key=trailing_idx)": a stable sort of the keys
SortedNames(names) ==
    LET Before(i, j) ==
            \/ TrailingLess(TrailingIdx(names[i]), TrailingIdx(names[j]))
            \/ (~TrailingLess(TrailingIdx(names[j]), TrailingIdx(names[i])) /\ i < j)
        Rank(i) == Cardinality({j \in 1..Len(names) : Before(j, i)})
    IN  [r \in 1..Len(names) |-> names[CHOOSE i \in 1..Len(names) : Rank(i) = r - 1]]

\* The branch "if auto_sets:"
SetsOfAuto(auto_sets, hint) ==
    Bind(BestOf(HintedSets(auto_sets, hint), 1, <<>>, <<>>),
         LAMBDA b : Bind(SortedNames(b.names),
                         LAMBDA ks : [i \in 1..Len(ks) |-> b.best[ks[i]]]))

\* The loop "for s in iter_cstrings()" of the inference from string k on
RECURSIVE GatherFamilies(_, _, _)
GatherFamilies(strings, k, by_prefix) ==
    IF k > Len(strings) THEN by_prefix
    ELSE Bind(TexMatch(strings[k]),
              LAMBDA m :
                IF ~m.ok \/ DigitsValue(m.idx_s) > MaxTexIndex
                THEN GatherFamilies(strings, k + 1, by_prefix)
                ELSE GatherFamilies(strings, k + 1,
                        DictSet(by_prefix, m.prefix,
                                DictSet(IF m.prefix \in DOMAIN by_prefix
                                        THEN by_prefix[m.prefix] ELSE <<>>,
                                        DigitsValue(m.idx_s), strings[k]))))

\* infer_scn0_material_color_maps(data, base_hint=hint)
InferColorMaps(data, hint) ==
    Bind(GatherFamilies(IterCstrings(data, 0), 1, <<>>),
         LAMBDA by_prefix :
           LET found == IF hint = <<>> THEN {}
                        ELSE {i \in 1..3 : (hint \o HintSuffixes[i]) \in DOMAIN by_prefix}
           IN  IF DOMAIN by_prefix = {} THEN <<>>
               ELSE IF found # {} THEN by_prefix[hint \o HintSuffixes[MinOf(found)]]
               ELSE by_prefix[Richest(by_prefix)])

\* color_maps_to_material_sets(color_maps)
ColorMapsToSets(cm) ==
    IF DOMAIN cm = {} THEN <<>>
    ELSE [k \in 1..(MaxOf(DOMAIN cm) + 1) |->
            IF (k - 1) \in DOMAIN cm THEN DictSet(<<>>, ColorMapKey, cm[k - 1]) ELSE <<>>]

\* The pieces of the input data: blocks with the ColorMap "aE_0.dds", with
\* "AU_0.dds" and a NormalMap, with "AU_0.dds" alone, with "t/b_1.dds", a
\* block of a NormalMap alone, the string "b_0.dds", a block of no entries,
\* a block cut in its flags.
ChoosePieceKinds == {"cE", "cUn", "cU", "c1", "n", "str", "zero", "cut"}
ChoosePiece(kind) ==
    CASE kind = "cE" -> AutoNeedle \o U32LE(1)
                          \o AutoEntryBytes(ColorMapKey, <<97, 69, 95, 48, 46, 100, 100, 115>>)
      [] kind = "cUn" -> AutoNeedle \o U32LE(2)
                          \o AutoEntryBytes(ColorMapKey, <<65, 85, 95, 48, 46, 100, 100, 115>>)
                          \o AutoEntryBytes(NormalMapKey, <<110, 46, 100, 100, 115>>)
      [] kind = "cU" -> AutoNeedle \o U32LE(1)
                          \o AutoEntryBytes(ColorMapKey, <<65, 85, 95, 48, 46, 100, 100, 115>>)
      [] kind = "c1" -> AutoNeedle \o U32LE(1)
                          \o AutoEntryBytes(ColorMapKey, <<116, 47, 98, 95, 49, 46, 100, 100, 115>>)
      [] kind = "n" -> AutoNeedle \o U32LE(1)
                          \o AutoEntryBytes(NormalMapKey, <<110, 46, 100, 100, 115>>)
      [] kind = "str" -> <<98, 95, 48, 46, 100, 100, 115, 0>>
      [] kind = "zero" -> AutoPiece("zero")
      [] OTHER -> AutoPiece("cut")

ChooseData ==
    {Flatten([i \in 1..Len(ks) |-> ChoosePiece(ks[i])]) : ks \in SeqsUpTo(2, ChoosePieceKinds)}

ChooseHints == {<<>>, <<97>>, <<98>>}

ChooseNew ==
    /\ cfun = "choose_scn0_material_sets"
    /\ cin \in ChooseData
    /\ cloc = [start |-> 0, blocks |-> <<>>]
    /\ cout = <<>> /\ cpc = "find"

\* "auto_sets = [m for m in auto_blocks_to_material_sets(auto_blocks) if
\* m.get("ColorMap")]" on the blocks that the extraction returned
ChooseSets ==
    /\ cfun = "choose_scn0_material_sets" /\ cpc = "done"
    /\ cloc' = [auto_blocks |-> cout[1],
                auto_sets |-> SelectSeq([i \in 1..Len(cout[1]) |->
                                           SetOfEntries(cout[1][i].entries, 1, <<>>)],
                                        LAMBDA m : Truthy(m, ColorMapKey))]
    /\ cout' = <<>>
    /\ cpc' = "chosen"
    /\ UNCHANGED <<cfun, cin>>
    /\ CallOther

\* "if auto_sets:" and the return of the sets of the blocks
ChooseAuto ==
    /\ cpc = "chosen" /\ cloc.auto_sets # <<>>
    /\ \E hint \in ChooseHints :
         /\ cout' = <<SetsOfAuto(cloc.auto_sets, hint)>>
         /\ cloc' = [auto_blocks |-> cloc.auto_blocks, auto_sets |-> cloc.auto_sets,
                     base_hint |-> hint, inferred |-> FALSE]
    /\ cpc' = "returned"
    /\ UNCHANGED <<cfun, cin>>
    /\ CallOther

\* "color_maps = infer_scn0_material_color_maps(data, base_hint=base_hint)"
\* and the return of its sets
ChooseInfer ==
    /\ cpc = "chosen" /\ cloc.auto_sets = <<>>
    /\ \E hint \in ChooseHints :
         /\ cout' = <<ColorMapsToSets(InferColorMaps(cin, hint))>>
         /\ cloc' = [auto_blocks |-> cloc.auto_blocks, auto_sets |-> cloc.auto_sets,
                     base_hint |-> hint, inferred |-> TRUE]
    /\ cpc' = "returned"
    /\ UNCHANGED <<cfun, cin>>
    /\ CallOther

InitChoose ==
    /\ ChooseNew /\ ReaderIdle /\ TreeIdle /\ SubsetIdle /\ D3DIdle /\ ScnIdle /\ MainIdle
NextChoose ==
    \/ AutoReturn \/ AutoBadCount \/ AutoBegin \/ AutoEntry \/ AutoEntryRaises \/ AutoAppend
    \/ ChooseSets \/ ChooseAuto \/ ChooseInfer
SpecChoose == InitChoose /\ [][NextChoose]_vars

\* C21: when the extraction finds at least one auto block in the data, the
\* result is built from the blocks and the inference from the file names is
\* not called.
C21_InferenceOnlyWithoutBlocks ==
    (cfun = "choose_scn0_material_sets" /\ cpc = "returned" /\ Len(cloc.auto_blocks) >= 1) =>
        ~cloc.inferred

-----------------------------------------------------------------------------
(* decode_vertex(decl, vb, i) for the vertices of a block that               *)
(* find_vb_block accepted: the byte ranges of vb that each call reads.      *)

\* The declaration values of the input: a base selector, known or not, the
\* normal and the packed fields, up to two texture coordinates of a format.
VertexDecls ==
    {base + 16 * n + 32 * p1 + 64 * p2 + 256 * uvc + 65536 * fmt
       : base \in {0, 2, 6, 14, 16384}, n \in 0..1, p1 \in 0..1, p2 \in 0..1,
         uvc \in 0..2, fmt \in {0, 1, 3, 6}}

\* "if not (12 <= stride <= 256): continue" of find_vb_block
StrideAccepted(decl) == 12 <= VertexStrideFromDecl(decl) /\ VertexStrideFromDecl(decl) <= 256

\* The struct.unpack_from calls of decode_vertex(decl, vb, i) as ranges
\* [lo, hi) of vb, in their order: the position (12 bytes for an unknown
\* base selector), the normal, the first texture coordinate.
DecodeVertexReads(decl, i) ==
    LET off == i * VertexStrideFromDecl(decl)
        posBytes == IF BaseBytes(decl) = 0 THEN 12 ELSE BaseBytes(decl)
        nrmOff == off + posBytes
        uvOff == nrmOff + 12 * Bit(decl, 4) + 4 * Bit(decl, 5) + 4 * Bit(decl, 6)
                   + 4 * Bit(decl, 7)
        fmt == IF UvFmtBits(decl) # 0 THEN UvFmtBits(decl) % 4 ELSE 0
    IN  << <<off, off + posBytes>> >>
          \o (IF Bit(decl, 4) = 1 THEN << <<nrmOff, nrmOff + 12>> >> ELSE <<>>)
          \o (IF UvCount(decl) = 0 THEN <<>>
              ELSE IF fmt = 3 THEN << <<uvOff, uvOff + 2>>, <<uvOff + 2, uvOff + 4>> >>
              ELSE << <<uvOff, uvOff + UvFmtBytes(fmt)>> >>)

\* The reads of a call up to the first one that struct.unpack_from refuses
\* (a read that ends behind len(vb)).
RECURSIVE ReadsDone(_, _, _)
ReadsDone(reads, k, n) ==
    IF k > Len(reads) \/ reads[k][2] > n THEN <<>>
    ELSE <<reads[k]>> \o ReadsDone(reads, k + 1, n)

VertexNew ==
    /\ cfun = "decode_vertex"
    /\ \E decl \in {d \in VertexDecls : StrideAccepted(d)}, vcount \in 1..MaxVerts :
         cin = [decl |-> decl, vcount |-> vcount]
    /\ cloc = <<>> /\ cout = <<>> /\ cpc = "start"

\* "stride = vertex_stride_from_decl(decl)" and
\* "vb = payload[vb_off : vb_off + stride * vcount]" of parse_mesh_record
VertexBegin ==
    /\ cfun = "decode_vertex" /\ cpc = "start"
    /\ cloc' = [stride |-> VertexStrideFromDecl(cin.decl),
                n |-> VertexStrideFromDecl(cin.decl) * cin.vcount,
                i |-> 0, reads |-> <<>>]
    /\ cpc' = "vertices"
    /\ UNCHANGED <<cfun, cin, cout>>
    /\ CallOther

\* one iteration of "for i in range(vcount)" whose reads all succeed
VertexDecode ==
    /\ cfun = "decode_vertex" /\ cpc = "vertices" /\ cloc.i < cin.vcount
    /\ \E reads \in {DecodeVertexReads(cin.decl, cloc.i)} :
         /\ \A k \in 1..Len(reads) : reads[k][2] <= cloc.n
         /\ cloc' = [cloc EXCEPT !.i = @ + 1, !.reads = Append(@, reads)]
    /\ UNCHANGED <<cfun, cin, cout, cpc>>
    /\ CallOther

\* an iteration in which struct.unpack_from raises struct.error
VertexRaises ==
    /\ cfun = "decode_vertex" /\ cpc = "vertices" /\ cloc.i < cin.vcount
    /\ \E reads \in {DecodeVertexReads(cin.decl, cloc.i)} :
         /\ \E k \in 1..Len(reads) : reads[k][2] > cloc.n
         /\ cloc' = [cloc EXCEPT !.reads = Append(@, ReadsDone(reads, 1, cloc.n))]
    /\ cout' = <<MeshRaised>>
    /\ cpc' = "raised"
    /\ UNCHANGED <<cfun, cin>>
    /\ CallOther

\* the end of the loop
VertexReturn ==
    /\ cfun = "decode_vertex" /\ cpc = "vertices" /\ cloc.i >= cin.vcount
    /\ cout' = <<[status |-> "decoded", nverts |-> cloc.i]>>
    /\ cpc' = "done"
    /\ UNCHANGED <<cfun, cin, cloc>>
    /\ CallOther

InitVertex ==
    /\ VertexNew /\ ReaderIdle /\ TreeIdle /\ SubsetIdle /\ D3DIdle /\ ScnIdle /\ MainIdle
NextVertex == VertexBegin \/ VertexDecode \/ VertexRaises \/ VertexReturn
SpecVertex == InitVertex /\ [][NextVertex]_vars

\* C22: for a declaration that find_vb_block accepts, every read of vertex i
\* lies inside [i * stride, (i + 1) * stride) and no read is out of range.
C22_ReadsInsideOwnRecord ==
    (cfun = "decode_vertex" /\ cpc # "start") =>
        /\ cpc # "raised"
        /\ \A i \in 1..Len(cloc.reads) : \A k \in 1..Len(cloc.reads[i]) :
             /\ (i - 1) * cloc.stride <= cloc.reads[i][k][1]
             /\ cloc.reads[i][k][2] <= i * cloc.stride

-----------------------------------------------------------------------------
(* extract_d3d_mesh_blocks on payloads of two blocks, one behind the other: *)
(* the duplicate check of the scan.                                        *)

\* An index list of n indices over the vertices 0..3: the triples (0, 1, 2)
\* and (1, 2, 3) in turn.
DedupIndices(n) == [k \in 1..n |-> ((k - 1) % 3) + (((k - 1) \div 3) % 2)]

\* A block of a position-only declaration, vcount vertices and idx_count
\* 16-bit indices.
DedupBlock(vcount, idx_count) ==
    EncodeDecl(DeclPos) \o U32LE(vcount) \o VertexBytes(12 * vcount)
      \o U32LE(0) \o U32LE(idx_count) \o EncodeIndices(DedupIndices(idx_count), 2)

\* Eight bytes that are no declaration element (its type is unknown): no
\* offset before a block reads as a declaration that runs into the block.
DedupGap == <<1, 1, 1, 1, 99, 1, 1, 1>>

\* The two blocks of the input payloads: [v1, c1, v2, c2].
DedupInputs ==
    { [v1 |-> 4, c1 |-> 6, v2 |-> 4, c2 |-> 144],
      [v1 |-> 4, c1 |-> 6, v2 |-> 4, c2 |-> 6],
      [v1 |-> 6, c1 |-> 6, v2 |-> 4, c2 |-> 144],
      [v1 |-> 4, c1 |-> 3, v2 |-> 4, c2 |-> 3] }

DedupPayload(in) ==
    DedupBlock(in.v1, in.c1) \o DedupGap \o DedupBlock(in.v2, in.c2) \o Zeros(2)

DedupNew ==
    /\ din \in DedupInputs
    /\ dpayload = DedupPayload(din)
    /\ doff = 0 /\ dmeshes = <<>> /\ dseen = {}
    /\ dpc = "start"

InitDedup == DedupNew /\ ReaderIdle /\ TreeIdle /\ SubsetIdle /\ ScnIdle /\ MainIdle /\ CallIdle
NextDedup == D3DBegin \/ D3DScan \/ D3DReturn
SpecDedup == InitDedup /\ [][NextDedup]_vars

\* C23: a structurally valid block at a scan offset of its own is never
\* discarded by the duplicate check: at the end of the scan every offset
\* that holds a block has its Mesh.
C23_OnlyDuplicatesDropped ==
    dpc = "done" =>
        \A off \in D3DBlockOffsets(dpayload) :
            \E k \in 1..Len(dmeshes) : dmeshes[k].off = off

-----------------------------------------------------------------------------
(* extract_d3d_mesh_blocks on payloads whose subset table ends at the       *)
(* declaration or runs 4 or 8 bytes into it, with the vertex count at       *)
(* +520, +524 or +528.                                                     *)

\* The table of one 16-byte entry (material 0, triangles 0..0, base vertex
\* 0) and the declaration behind it.  over = 0: the table ends where the
\* declaration starts.  over = 4: the base vertex of the entry is also the
\* stream and the offset of the position element.  over = 8: the triangle
\* count and the base vertex of the entry are also a first element (stream
\* 1, type 0) before the position element.
OverlapDecl(over) ==
    IF over = 0 THEN EncodeTable(1, <<GoodEntry(4)>>, 16) \o EncodeDecl(DeclPos)
    ELSE IF over = 4
      THEN SubSeq(EncodeTable(1, <<GoodEntry(4)>>, 16), 1, 16) \o EncodeDecl(DeclPos)
    ELSE SubSeq(EncodeTable(1, <<GoodEntry(4)>>, 16), 1, 12)
           \o EncodeDecl(<<EncodeElem(1, 0, 0, 0), EncodeElem(0, 0, 2, 0)>>)

OverlapInputs ==
    {[pad |-> pad, over |-> over, layout |-> layout, ix |-> ix]
       : pad \in {0, 4}, over \in {0, 4, 8}, layout \in 0..2,
         ix \in {<<0, 1, 2>>, <<0, 1, 2, 3>>}}

OverlapPayload(in) ==
    Zeros(in.pad) \o OverlapDecl(in.over)
      \o Zeros(4 * in.layout) \o U32LE(4) \o VertexBytes(12 * 4)
      \o U32LE(0) \o U32LE(Len(in.ix)) \o EncodeIndices(in.ix, 2) \o Zeros(2)

OverlapNew ==
    /\ din \in OverlapInputs
    /\ dpayload = OverlapPayload(din)
    /\ doff = 0 /\ dmeshes = <<>> /\ dseen = {}
    /\ dpc = "start"

InitOverlap == OverlapNew /\ ReaderIdle /\ TreeIdle /\ SubsetIdle /\ ScnIdle /\ MainIdle /\ CallIdle
NextOverlap == D3DBegin \/ D3DScan \/ D3DReturn
SpecOverlap == InitOverlap /\ [][NextOverlap]_vars

\* The entries of a table of n entries of esize bytes at t.
TableEntriesAt(p, t, esize, n) == [i \in 1..n |-> SubsetDict(SubsetEntryAt(p, t, i - 1, esize))]

\* The subsets are those of a table of the payload that ends at or before
\* limit.
TableBefore(p, subsets, limit) ==
    \E t \in 0..limit : \E esize \in {16, 20} :
        /\ t + 4 + Len(subsets) * esize <= limit
        /\ U32At(p, t) = Len(subsets)
        /\ TableEntriesAt(p, t, esize, Len(subsets)) = subsets

\* How far behind +520 the vertex count of the block at off was taken.
CountShift(p, off) ==
    IF 0 < U32At(p, off + 520) /\ U32At(p, off + 520) <= MaxEmbeddedVcount THEN 0
    ELSE IF 0 < U32At(p, off + 524) /\ U32At(p, off + 524) <= MaxEmbeddedVcount THEN 4
    ELSE 8

\* C24 as stated: the subset table of every emitted mesh ends at or before
\* the offset of the mesh's declaration, wherever the vertex count was.
C24_TableBeforeDecl ==
    \A k \in 1..Len(dmeshes) :
        dmeshes[k].subsets # <<>> =>
            TableBefore(dpayload, dmeshes[k].subsets, dmeshes[k].off)

\* C24: the subset table of every emitted mesh ends at or before the
\* effective declaration offset vb_off - 524: the offset of the declaration
\* when the vertex count was at +520, 4 or 8 bytes behind it when the count
\* was at +524 or +528.
C24_TableBeforeEffectiveDecl ==
    \A k \in 1..Len(dmeshes) :
        dmeshes[k].subsets # <<>> =>
            TableBefore(dpayload, dmeshes[k].subsets,
                        dmeshes[k].off + CountShift(dpayload, dmeshes[k].off))

\* A mesh whose vertex count was at +528 and whose table runs 8 bytes into
\* its declaration.
C24_Witness ==
    /\ dpc = "done"
    /\ din \in OverlapInputs /\ din.over = 8 /\ din.layout = 2
    /\ \E k \in 1..Len(dmeshes) :
         /\ dmeshes[k].off = din.pad + 12
         /\ CountShift(dpayload, dmeshes[k].off) = 8
         /\ Len(dmeshes[k].subsets) = 1
         /\ ~TableBefore(dpayload, dmeshes[k].subsets, dmeshes[k].off + 7)

-----------------------------------------------------------------------------
(* parse_scn1 on files whose records hold blocks of index lists that give   *)
(* no face: two indices, and a strip of four with repeated indices.        *)

FacelessFiles ==
    {File("scn1", lib, main, extra, 0, "none")
       : lib \in 0..1,
         main \in SeqsUpTo(MaxRecords, {"hit", "twoidx", "flat", "legacy"}),
         extra \in SeqsUpTo(1, {"hit", "twoidx", "legacy"})}

FacelessNew ==
    /\ pfile \in FacelessFiles
    /\ pdata = EncodeFile(pfile)
    /\ pofs = 0 /\ ppc = "magic" /\ pa = 0 /\ pb = 0 /\ pn = 0
    /\ pmeshes = <<>> /\ pemit = <<>> /\ pret = <<>>

InitFaceless ==
    FacelessNew /\ ReaderIdle /\ TreeIdle /\ SubsetIdle /\ D3DIdle /\ MainIdle /\ CallIdle
SpecFaceless == InitFaceless /\ [][NextScn1]_vars

\* C25: every Mesh of the list that parse_scn1 returns has at least one
\* vertex and at least one face.
C25_MeshesHaveFaces ==
    ppc = "done" =>
        \A k \in 1..Len(pret[1]) : pret[1][k].nverts >= 1 /\ pret[1][k].faces # <<>>

-----------------------------------------------------------------------------
(* parse_mesh_record on payloads that reach each of its three decode paths  *)
(* with one index list: the faces built from the list.                     *)

MaxStripLen == 4

\* The index lists: every list over three indices up to a length, and lists
\* of 5, 6 and 7 indices with and without repeated indices.
FaceIndexLists ==
    SeqsUpTo(MaxStripLen, 0..2)
      \cup { <<0, 1, 2, 2, 1, 3>>, <<0, 1, 2, 1, 2, 0>>, <<0, 1, 2, 3, 4>>, <<0, 1, 1, 2, 3>>,
             <<0, 1, 2, 2, 3, 4, 0>>, <<3, 3, 3, 3, 3>> }

FacePaths == {"pathA", "embedded", "legacy"}

\* A payload for the path: a declaration at the start of the payload, the
\* same two bytes further on, or the flags and the vertex-desc block that
\* find_vb_block looks for.
FacePayload(path, ix, idx_fmt) ==
    LET tail == U32LE(3) \o VertexBytes(3 * 12) \o U32LE(idx_fmt) \o U32LE(Len(ix))
                  \o EncodeIndices(ix, IF idx_fmt = 0 THEN 2 ELSE 4)
    IN  CASE path = "pathA" -> EncodeDecl(DeclPos) \o tail
          [] path = "embedded" -> <<1, 1>> \o EncodeDecl(DeclPos) \o tail \o Zeros(2)
          [] OTHER -> U32LE(2) \o Zeros(516) \o tail

FacesNew ==
    /\ cfun = "parse_mesh_record"
    /\ \E path \in FacePaths, ix \in FaceIndexLists, idx_fmt \in 0..1 :
         /\ cin = [path |-> path, indices |-> ix]
         /\ cloc = FacePayload(path, ix, idx_fmt)
    /\ cout = <<>> /\ cpc = "start"

\* parse_mesh_record from its payload on: the path that decodes it
FacesParse ==
    /\ cfun = "parse_mesh_record" /\ cpc = "start"
    /\ cout' = <<ParsePayload(cloc)>>
    /\ cpc' = "done"
    /\ UNCHANGED <<cfun, cin, cloc>>
    /\ CallOther

InitFaces ==
    /\ FacesNew /\ ReaderIdle /\ TreeIdle /\ SubsetIdle /\ D3DIdle /\ ScnIdle /\ MainIdle
NextFaces == FacesParse
SpecFaces == InitFaces /\ [][NextFaces]_vars

\* The faces of the rule: the consecutive triples of a list whose length is
\* a multiple of 3; else, for i = 2 .. n - 1, the triple (idx[i-2],
\* idx[i-1], idx[i]) with its first two indices exchanged for an odd i,
\* unless two of the three are equal.  (idx[i] is ix[i + 1].)
RuleFaces(ix) ==
    IF Len(ix) % 3 = 0
    THEN [k \in 1..(Len(ix) \div 3) |-> SubSeq(ix, 3 * k - 2, 3 * k)]
    ELSE LET kept == SelectSeq([j \in 1..(Len(ix) - 2) |-> j + 1],
                               LAMBDA i : Cardinality({ix[i - 1], ix[i], ix[i + 1]}) = 3)
         IN  [k \in 1..Len(kept) |->
                IF kept[k] % 2 = 1 THEN <<ix[kept[k]], ix[kept[k] - 1], ix[kept[k] + 1]>>
                ELSE <<ix[kept[k] - 1], ix[kept[k]], ix[kept[k] + 1]>>]

\* The payloads that get a Mesh: Path A takes any index count, the embedded
\* scan and find_vb_block take none of 0.
FacesDecoded == cin.path = "pathA" \/ cin.indices # <<>>

\* C26: each of the three decode paths builds the faces of its index list
\* by the one rule (triples for a count that is a multiple of 3, else the
\* strip without its degenerate triangles, alternating the winding).
C26_FacesByRule ==
    (cfun = "parse_mesh_record" /\ cpc = "done") =>
        IF FacesDecoded
        THEN /\ cout[1].status = "mesh"
             /\ cout[1].mesh.kind = cin.path
             /\ cout[1].mesh.faces = RuleFaces(cin.indices)
        ELSE cout[1].status = "none"

\* The legacy path on a strip of 7 indices with a repeated one: the triangles
\* at i = 3 and 4 are dropped, the one at i = 5 is turned.
C26_Witness ==
    /\ cfun = "parse_mesh_record" /\ cpc = "done"
    /\ cin = [path |-> "legacy", indices |-> <<0, 1, 2, 2, 3, 4, 0>>]
    /\ cout[1].status = "mesh"
    /\ cout[1].mesh.faces = <<<<0, 1, 2>>, <<3, 2, 4>>, <<3, 4, 0>>>>

-----------------------------------------------------------------------------
(* extract_d3d_mesh_blocks on payloads with up to four u32 fields between   *)
(* the declaration and the vertex buffer, whole and cut short.             *)

\* The fields behind the declaration, the last one being the count that the
\* vertex buffer follows: values in range, 0, 5000000 and 5000001.
ProbeFields ==
    { <<4>>, <<0, 4>>, <<0, 0, 4>>, <<0, 0, 0, 4>>, <<4, 4>>, <<0, 4, 4>>,
      <<5000001, 4>>, <<0, 5000001, 4>>, <<5000001, 5000001, 4>>,
      <<5000001, 5000001, 5000001, 4>>, <<5000000, 4>>, <<0, 5000000, 4>> }

ProbeInputs ==
    {[pad |-> pad, fields |-> fs, h0 |-> h0, ix |-> ix, cut |-> cut]
       : pad \in {0, 2}, fs \in ProbeFields, h0 \in {0, 1, 4},
         ix \in {<<0, 1, 2>>, <<0, 1, 2, 3>>}, cut \in {0, 1}}

\* The payload; with cut = 1 its last byte, the last of the index buffer, is
\* missing.
ProbePayload(in) ==
    Bind(Zeros(in.pad) \o EncodeDecl(DeclPos)
           \o Flatten([i \in 1..Len(in.fields) |-> U32LE(in.fields[i])])
           \o VertexBytes(12 * 4)
           \o U32LE(in.h0) \o U32LE(Len(in.ix))
           \o EncodeIndices(in.ix, IF in.h0 = 0 THEN 2 ELSE 4),
         LAMBDA whole : SubSeq(whole, 1, Len(whole) - in.cut))

ProbeNew ==
    /\ din \in ProbeInputs
    /\ dpayload = ProbePayload(din)
    /\ doff = 0 /\ dmeshes = <<>> /\ dseen = {}
    /\ dpc = "start"

InitProbe == ProbeNew /\ ReaderIdle /\ TreeIdle /\ SubsetIdle /\ ScnIdle /\ MainIdle /\ CallIdle
NextProbe == D3DBegin \/ D3DScan \/ D3DReturn
SpecProbe == InitProbe /\ [][NextProbe]_vars

InCountRange(v) == 0 < v /\ v <= 5000000

\* The fields at +520, +524, +528 of off that are in range, as 0, 1, 2.
FieldsInRange(p, off) == {k \in 0..2 : InCountRange(U32At(p, off + 520 + 4 * k))}

\* The block that the claim describes at off for the first field in range:
\* its count, the header and the index buffer behind its vertex buffer.
ProbedBlock(p, off) ==
    LET k == MinOf(FieldsInRange(p, off))
        vcount == U32At(p, off + 520 + 4 * k)
        hdr == off + 524 + 4 * k + ParseD3DDecl520(p, off).stride * vcount
        bpi == IF hdr + 8 <= Len(p) THEN IdxBpi(U32At(p, hdr)) ELSE 0
        n == IF hdr + 8 <= Len(p) THEN U32At(p, hdr + 4) ELSE 0
    IN  [vcount |-> vcount, hdr |-> hdr, bpi |-> bpi, n |-> n,
         inside |-> hdr + 8 <= Len(p) /\ hdr + 8 + n * bpi <= Len(p)]

\* C27: a Mesh is emitted at an offset only if one of the fields at +520,
\* +524, +528 is in (0, 5000000]; its vertex count is the first such field,
\* its vertex buffer starts 4 bytes behind that field, and the vertex
\* buffer, the 8-byte index header and the index buffer end within the
\* payload.
C27_ProbeAndBounds ==
    \A k \in 1..Len(dmeshes) :
        /\ FieldsInRange(dpayload, dmeshes[k].off) # {}
        /\ \E b \in {ProbedBlock(dpayload, dmeshes[k].off)} :
             /\ dmeshes[k].nverts = b.vcount
             /\ b.inside
             /\ dmeshes[k].faces = BuildFaces(ReadIndices(dpayload, b.hdr + 8, b.n, b.bpi))

\* The first field is 5000001 and the second 4: the Mesh of the count at
\* +524 is emitted, from 32-bit indices behind a buffer of 4 vertices.
C27_Witness ==
    /\ dpc = "done"
    /\ din \in ProbeInputs /\ din.fields = <<5000001, 4>> /\ din.h0 = 1 /\ din.cut = 0
    /\ din.ix = <<0, 1, 2, 3>>
    /\ Len(dmeshes) = 1
    /\ dmeshes[1].off = din.pad /\ dmeshes[1].nverts = 4
    /\ dmeshes[1].faces = <<<<0, 1, 2>>, <<2, 1, 3>>>>
    /\ MinOf(FieldsInRange(dpayload, din.pad)) = 1

-----------------------------------------------------------------------------
(* find_vb_block(payload), one iteration of its loop per step.              *)

\* The blocks of the input: flags, vertex-desc, vertex count, vertex buffer,
\* index header, index data.  The flags 2 give the stride 12, the flags 0
\* and 256 the strides 0 and 8, 0x2AAA0F1E the stride 192.
VbBlockKinds ==
    {"good", "wide", "fmt1", "nostride", "stride8", "novertex", "manyvertex", "noindex",
     "manyindex", "fmt2", "short", "double"}

VbBlock(decl, vcount, nverts, idx_fmt, idx_count, ix) ==
    U32LE(decl) \o Zeros(516) \o U32LE(vcount)
      \o VertexBytes(nverts * VertexStrideFromDecl(decl))
      \o U32LE(idx_fmt) \o U32LE(idx_count)
      \o EncodeIndices(ix, IF idx_fmt = 0 THEN 2 ELSE 4)

VbBlockBytes(kind) ==
    CASE kind = "good" -> VbBlock(2, 3, 3, 0, 3, <<0, 1, 2>>)
      [] kind = "wide" -> VbBlock(715788062, 1, 1, 0, 3, <<0, 0, 0>>)
      [] kind = "fmt1" -> VbBlock(2, 3, 3, 1, 3, <<0, 1, 2>>)
      [] kind = "nostride" -> VbBlock(0, 3, 3, 0, 3, <<0, 1, 2>>)
      [] kind = "stride8" -> VbBlock(256, 3, 3, 0, 3, <<0, 1, 2>>)
      [] kind = "novertex" -> VbBlock(2, 0, 0, 0, 3, <<0, 1, 2>>)
      [] kind = "manyvertex" -> VbBlock(2, 16777216, 3, 0, 3, <<0, 1, 2>>)
      [] kind = "noindex" -> VbBlock(2, 3, 3, 0, 0, <<>>)
      [] kind = "manyindex" -> VbBlock(2, 3, 3, 0, 100663296, <<0, 1, 2>>)
      [] kind = "fmt2" -> VbBlock(2, 3, 3, 2, 3, <<0, 1, 2>>)
      [] kind = "short" -> VbBlock(2, 3, 3, 0, 4, <<0, 1, 2>>)
      \* two blocks, four bytes apart, that share their bytes
      [] OTHER -> U32LE(2) \o U32LE(2) \o Zeros(512) \o U32LE(1) \o U32LE(1) \o Zeros(8)
                    \o U32LE(0) \o U32LE(1) \o U32LE(1) \o Zeros(4)

VbPayloads ==
    {Zeros(pad) \o VbBlockBytes(kind) \o Zeros(tail)
       : pad \in {0, 4, 8, 6}, kind \in VbBlockKinds, tail \in {0, 64, 68}}
    \cup {Zeros(n) : n \in {0, 535, 536, 540}}

VbNew ==
    /\ cfun = "find_vb_block"
    /\ cin \in VbPayloads
    /\ cloc = <<>> /\ cout = <<>> /\ cpc = "start"

\* The step of "range(0, len(payload) - (520 + 4 + 8), 4)"; a wider step.
VbStepWide(desc_off) == desc_off + 8
VbStep(desc_off) == desc_off + 4

\* "if len(payload) < 520 + 4 + 4 + 8: return None"
VbTooShort ==
    /\ cfun = "find_vb_block" /\ cpc = "start"
    /\ Len(cin) < 520 + 4 + 4 + 8
    /\ cout' = <<NoBlock>>
    /\ cpc' = "done"
    /\ UNCHANGED <<cfun, cin, cloc>>
    /\ CallOther

VbBegin ==
    /\ cfun = "find_vb_block" /\ cpc = "start"
    /\ Len(cin) >= 520 + 4 + 4 + 8
    /\ cloc' = [desc_off |-> 0]
    /\ cpc' = "loop"
    /\ UNCHANGED <<cfun, cin, cout>>
    /\ CallOther

VbInLoop == cfun = "find_vb_block" /\ cpc = "loop" /\ cloc.desc_off < Len(cin) - (520 + 4 + 8)

\* an iteration that ends in a "continue"
VbContinue ==
    /\ VbInLoop
    /\ ~VbBlockAt(cin, cloc.desc_off).ok
    /\ cloc' = [desc_off |-> VbStep(cloc.desc_off)]
    /\ UNCHANGED <<cfun, cin, cout, cpc>>
    /\ CallOther

\* "return desc_off, decl, vcount, ib_hdr_off, end_off"
VbHit ==
    /\ VbInLoop
    /\ \E b \in {VbBlockAt(cin, cloc.desc_off)} :
         /\ b.ok
         /\ cout' = <<b>>
    /\ cpc' = "done"
    /\ UNCHANGED <<cfun, cin, cloc>>
    /\ CallOther

\* "return None" behind the loop
VbNone ==
    /\ cfun = "find_vb_block" /\ cpc = "loop" /\ ~VbInLoop
    /\ cout' = <<NoBlock>>
    /\ cpc' = "done"
    /\ UNCHANGED <<cfun, cin, cloc>>
    /\ CallOther

InitVb ==
    /\ VbNew /\ ReaderIdle /\ TreeIdle /\ SubsetIdle /\ D3DIdle /\ ScnIdle /\ MainIdle
NextVb == VbTooShort \/ VbBegin \/ VbContinue \/ VbHit \/ VbNone
SpecVb == InitVb /\ [][NextVb]_vars

\* The conditions of the claim at the offset o of p.  (A count above len(p)
\* cannot end within p; it is excluded before a product is taken.)
VbQualifies(p, o) ==
    /\ o % 4 = 0
    /\ o + 524 <= Len(p)
    /\ VertexStrideFromDecl(U32At(p, o)) \in 12..256
    /\ U32At(p, o + 520) \in 1..10000000
    /\ U32At(p, o + 520) <= Len(p)
    /\ \E hdr \in {o + 524 + VertexStrideFromDecl(U32At(p, o)) * U32At(p, o + 520)} :
         /\ hdr + 8 <= Len(p)
         /\ U32At(p, hdr) \in {0, 1}
         /\ U32At(p, hdr + 4) \in 1..100000000
         /\ U32At(p, hdr + 4) <= Len(p)
         /\ \E last \in {hdr + 8 + U32At(p, hdr + 4) * (IF U32At(p, hdr) = 0 THEN 2 ELSE 4)} :
              last <= Len(p) /\ Len(p) - last <= 64

\* C28: find_vb_block returns the lowest 4-byte-aligned offset at which the
\* stride, the vertex count, the index header, the end of the index data
\* and the trailing bytes qualify, and None when there is none.
C28_LowestQualifying ==
    (cfun = "find_vb_block" /\ cpc = "done") =>
        \E q \in {{o \in 0..Len(cin) : VbQualifies(cin, o)}} :
            IF q = {} THEN ~cout[1].ok
            ELSE cout[1].ok /\ cout[1].desc_off = MinOf(q)

\* Two offsets qualify, 4 and 8, and the lower one is returned.
C28_Witness ==
    /\ cfun = "find_vb_block" /\ cpc = "done"
    /\ VbQualifies(cin, 4) /\ VbQualifies(cin, 8)
    /\ cout[1].ok /\ cout[1].desc_off = 4

-----------------------------------------------------------------------------
(* decode_vertex_d3d(elems, vb, i, stride) on element lists of every order. *)

MaxElems == 3

DvElem(stream, offset, typ, usage, usage_idx) ==
    [stream |-> stream, offset |-> offset, typ |-> typ, method |-> 0,
     usage |-> usage, usage_idx |-> usage_idx]

\* FLOAT3 and other positions and normals, FLOAT2 and other texture
\* coordinates, a second coordinate set, a colour, a position of stream 1,
\* the sentinel.
DvElems ==
    {DvElem(0, 0, 2, 0, 0), DvElem(0, 12, 2, 0, 0), DvElem(0, 4, 1, 0, 0),
     DvElem(0, 12, 2, 3, 0), DvElem(0, 20, 2, 3, 1), DvElem(0, 0, 3, 3, 0),
     DvElem(0, 24, 1, 5, 0), DvElem(0, 8, 1, 5, 1), DvElem(0, 16, 2, 5, 0),
     DvElem(0, 0, 4, 10, 0), DvElem(1, 8, 2, 0, 0),
     DvElem(SentinelStream, 0, 17, 0, 0)}

\* Four vertices of eight floats each.
DvBuffer == QuadVertexBytes([shift |-> 0])

DvNew ==
    /\ cfun = "decode_vertex_d3d"
    /\ cin \in {[elems |-> elems, i |-> i, stride |-> stride, flags |-> flags]
                  : elems \in SeqsUpTo(MaxElems, DvElems), i \in 0..1, stride \in {32, 36},
                    flags \in {[flip_v |-> f, swap_yz |-> f] : f \in BOOLEAN}}
    /\ cloc = <<>> /\ cout = <<>> /\ cpc = "start"

DvDecode ==
    /\ cfun = "decode_vertex_d3d" /\ cpc = "start"
    /\ cout' = <<DecodeVertexD3D(cin.elems, DvBuffer, 0, cin.i, cin.stride, cin.flags)>>
    /\ cpc' = "done"
    /\ UNCHANGED <<cfun, cin, cloc>>
    /\ CallOther

InitDv ==
    /\ DvNew /\ ReaderIdle /\ TreeIdle /\ SubsetIdle /\ D3DIdle /\ ScnIdle /\ MainIdle
NextDv == DvDecode
SpecDv == InitDv /\ [][NextDv]_vars

\* The elements of stream 0 in front of the first sentinel, by position.
DvConsidered(elems) ==
    {k \in 1..Len(elems) :
        /\ elems[k].stream = 0
        /\ \A j \in 1..k : elems[j].stream # SentinelStream}

DvFloats(i, stride, e, n) ==
    [c \in 1..n |-> F32At(DvBuffer, i * stride + e.offset + 4 * (c - 1))]

\* C29: the position is read from the first considered FLOAT3 element of
\* usage 0, the normal from the first of usage 3, the UV from the first
\* FLOAT2 element of usage 5 and usage index 0, each at i*stride + offset;
\* without such an element the position is (0,0,0) and the others are None.
C29_FirstMatchingElement ==
    (cfun = "decode_vertex_d3d" /\ cpc = "done") =>
        LET el == cin.elems
            ps == {k \in DvConsidered(el) : el[k].usage = 0 /\ el[k].typ = 2}
            ns == {k \in DvConsidered(el) : el[k].usage = 3 /\ el[k].typ = 2}
            us == {k \in DvConsidered(el) :
                      el[k].usage = 5 /\ el[k].usage_idx = 0 /\ el[k].typ = 1}
            zero == FlZero(FALSE)
            r == cout[1]
        IN  /\ r.pos = IF ps = {} THEN <<zero, zero, zero>>
                       ELSE Swap(DvFloats(cin.i, cin.stride, el[MinOf(ps)], 3), cin.flags.swap_yz)
            /\ r.nrm = IF ns = {} THEN <<>>
                       ELSE Swap(DvFloats(cin.i, cin.stride, el[MinOf(ns)], 3), cin.flags.swap_yz)
            /\ r.uv = IF us = {} THEN <<>>
                      ELSE <<DvFloats(cin.i, cin.stride, el[MinOf(us)], 2)[1],
                             FlipV(DvFloats(cin.i, cin.stride, el[MinOf(us)], 2)[2],
                                   cin.flags.flip_v)>>

\* Vertex 1 of stride 32: a position of the wrong type, then two FLOAT3
\* positions of which the first is read, and a sentinel in front of the
\* only normal.
C29_Witness ==
    /\ cfun = "decode_vertex_d3d" /\ cpc = "done"
    /\ cin.i = 1 /\ cin.stride = 32 /\ ~cin.flags.swap_yz
    /\ cin.elems = <<DvElem(0, 4, 1, 0, 0), DvElem(0, 12, 2, 0, 0), DvElem(0, 0, 2, 0, 0)>>
    /\ cout[1].pos = <<F32At(DvBuffer, 44), F32At(DvBuffer, 48), F32At(DvBuffer, 52)>>
    /\ cout[1].nrm = <<>> /\ cout[1].uv = <<>>

-----------------------------------------------------------------------------
(* extract_texture_maps(record_bytes), one found occurrence per step.       *)

MaxTexPieces == 2
MaxTexValueLen == 260

\* keys = ["ColorMap", "NormalMap", "LuminosityMap", "ReflectionMap"]
TexKeys == <<ColorMapKey, NormalMapKey, LuminosityMapKey, ReflectionMapKey>>

\* bytes.find(needle, from) for from >= 0: the lowest offset or -1
BytesFind(d, needle, from) ==
    Bind({o \in from..(Len(d) - Len(needle)) :
             \A j \in 1..Len(needle) : d[o + j] = needle[j]},
         LAMBDA hits : IF hits = {} THEN -1 ELSE MinOf(hits))

\* "out.setdefault(key, val)"; the assignment "out[key] = val".
DictAssign(m, key, val) == DictSet(m, key, val)
DictSetDefault(m, key, val) == IF key \in DOMAIN m THEN m ELSE DictSet(m, key, val)

\* "1 <= len(val) <= 260 and all((c == '\t' or 32 <= ord(c) < 127) ...)"
TexValueAccepted(val) ==
    /\ 1 <= Len(val) /\ Len(val) <= MaxTexValueLen
    /\ \A i \in 1..Len(val) : val[i] = 9 \/ (32 <= val[i] /\ val[i] < 127)

\* The pieces of a record: a key, a NUL, a value, and (but for "Copen") a
\* NUL; a key without its NUL; single bytes.
TexPieceKinds ==
    {"Ca", "Cb", "Cempty", "Cctl", "Ctab", "Cdel", "Ctilde", "Chigh", "Copen", "Cmax", "Clong",
     "Na", "Nb", "La", "Ra", "Rempty", "Ckey", "nul", "x"}

TexPiece(kind) ==
    CASE kind = "Ca" -> ColorMapKey \o <<0, 97, 0>>
      [] kind = "Cb" -> ColorMapKey \o <<0, 98, 46, 100, 0>>
      [] kind = "Cempty" -> ColorMapKey \o <<0, 0>>
      [] kind = "Cctl" -> ColorMapKey \o <<0, 99, 31, 0>>
      [] kind = "Ctab" -> ColorMapKey \o <<0, 9, 32, 0>>
      [] kind = "Cdel" -> ColorMapKey \o <<0, 127, 0>>
      [] kind = "Ctilde" -> ColorMapKey \o <<0, 126, 0>>
      [] kind = "Chigh" -> ColorMapKey \o <<0, 100, 255, 0>>
      [] kind = "Copen" -> ColorMapKey \o <<0, 111>>
      [] kind = "Cmax" -> ColorMapKey \o <<0>> \o [i \in 1..MaxTexValueLen |-> 109] \o <<0>>
      [] kind = "Clong" -> ColorMapKey \o <<0>> \o [i \in 1..(MaxTexValueLen + 1) |-> 108] \o <<0>>
      [] kind = "Na" -> NormalMapKey \o <<0, 110, 0>>
      [] kind = "Nb" -> NormalMapKey \o <<0, 78, 0>>
      [] kind = "La" -> LuminosityMapKey \o <<0, 108, 0>>
      [] kind = "Ra" -> ReflectionMapKey \o <<0, 114, 0>>
      [] kind = "Rempty" -> ReflectionMapKey \o <<0, 0>>
      [] kind = "Ckey" -> ColorMapKey
      [] kind = "nul" -> <<0>>
      [] OTHER -> <<120>>

TexRecords == {Flatten([i \in 1..Len(ks) |-> TexPiece(ks[i])]) : ks \in SeqsUpTo(MaxTexPieces, TexPieceKinds)}

TexNew ==
    /\ cfun = "extract_texture_maps"
    /\ cin \in TexRecords
    /\ cloc = [k |-> 1, pos |-> 0, out |-> <<>>]
    /\ cout = <<>> /\ cpc = "loop"

TexNeedle(k) == TexKeys[k] \o <<0>>
TexAtKey == cfun = "extract_texture_maps" /\ cpc = "loop" /\ cloc.k <= Len(TexKeys)

\* "s_end > s_start" and the test of val, for the occurrence at idx
TexAcceptedAt(d, needle, idx) ==
    Bind(FindNul(d, idx + Len(needle)),
         LAMBDA s_end :
           /\ s_end > idx + Len(needle)
           /\ TexValueAccepted(DecodeUtf8(PySlice(d, idx + Len(needle), s_end))))

\* "idx = record_bytes.find(needle, pos)" with idx >= 0 and a value that is
\* stored
TexStore ==
    /\ TexAtKey
    /\ \E idx \in {BytesFind(cin, TexNeedle(cloc.k), cloc.pos)} :
         /\ idx >= 0
         /\ TexAcceptedAt(cin, TexNeedle(cloc.k), idx) = TRUE
         /\ \E s_start \in {idx + Len(TexNeedle(cloc.k))} :
              cloc' = [cloc EXCEPT !.pos = idx + 1,
                                   !.out = DictSetDefault(cloc.out, TexKeys[cloc.k],
                                               DecodeUtf8(PySlice(cin, s_start,
                                                                  FindNul(cin, s_start))))]
    /\ UNCHANGED <<cfun, cin, cout, cpc>>
    /\ CallOther

\* the same with no value, or one that is not stored
TexSkip ==
    /\ TexAtKey
    /\ \E idx \in {BytesFind(cin, TexNeedle(cloc.k), cloc.pos)} :
         /\ idx >= 0
         /\ TexAcceptedAt(cin, TexNeedle(cloc.k), idx) = FALSE
         /\ cloc' = [cloc EXCEPT !.pos = idx + 1]
    /\ UNCHANGED <<cfun, cin, cout, cpc>>
    /\ CallOther

\* "if idx < 0: break", and the next key
TexBreak ==
    /\ TexAtKey
    /\ BytesFind(cin, TexNeedle(cloc.k), cloc.pos) < 0
    /\ cloc' = [cloc EXCEPT !.k = cloc.k + 1, !.pos = 0]
    /\ UNCHANGED <<cfun, cin, cout, cpc>>
    /\ CallOther

\* "return out"
TexReturn ==
    /\ cfun = "extract_texture_maps" /\ cpc = "loop" /\ cloc.k > Len(TexKeys)
    /\ cout' = <<cloc.out>>
    /\ cpc' = "done"
    /\ UNCHANGED <<cfun, cin, cloc>>
    /\ CallOther

InitTex ==
    /\ TexNew /\ ReaderIdle /\ TreeIdle /\ SubsetIdle /\ D3DIdle /\ ScnIdle /\ MainIdle
NextTex == TexStore \/ TexSkip \/ TexBreak \/ TexReturn
SpecTex == InitTex /\ [][NextTex]_vars

\* The end of the value behind the occurrence of key + NUL at offset o of d,
\* or 0 when o holds no occurrence with a value as the claim describes it.
TexValueEnd(d, key, o) ==
    IF o + Len(key) + 1 > Len(d) \/ SubSeq(d, o + 1, o + Len(key) + 1) # key \o <<0>> THEN 0
    ELSE Bind({e \in (o + Len(key) + 2)..Len(d) : d[e] = 0},
              LAMBDA nuls :
                IF nuls = {} THEN 0
                ELSE Bind(MinOf(nuls) - 1,
                          LAMBDA e :
                            IF /\ e - (o + Len(key) + 1) \in 1..260
                               /\ \A i \in (o + Len(key) + 2)..e :
                                     d[i] = 9 \/ d[i] \in 32..126
                            THEN e ELSE 0))

\* C30: for each of the four keys the result holds the value of the lowest
\* offset at which key + NUL is followed by a NUL-terminated value of 1 to
\* 260 characters, all tab or 0x20..0x7E, and no entry when there is no such
\* offset; it holds no other key.
C30_FirstAcceptedOccurrence ==
    (cfun = "extract_texture_maps" /\ cpc = "done") =>
        /\ DOMAIN cout[1] \subseteq SlotVocabulary
        /\ \A key \in SlotVocabulary :
             \E occ \in {{o \in 0..Len(cin) : TexValueEnd(cin, key, o) > 0}} :
               IF occ = {} THEN key \notin DOMAIN cout[1]
               ELSE /\ key \in DOMAIN cout[1]
                    /\ cout[1][key] = SubSeq(cin, MinOf(occ) + Len(key) + 2,
                                             TexValueEnd(cin, key, MinOf(occ)))

\* Two accepted ColorMap values: the first one is returned.
C30_Witness ==
    /\ cfun = "extract_texture_maps" /\ cpc = "done"
    /\ cin = TexPiece("Ca") \o TexPiece("Cb")
    /\ cout[1] = DictSet(<<>>, ColorMapKey, <<97>>)

=============================================================================
